---- MODULE Spec2Model ----
(***************************************************************************)
(* State-machine model of react-cosmic's OrbitStore (src/core/store.ts),   *)
(* its TabSync (src/sync/tab-sync.ts) and the storage adapter register it  *)
(* persists to.  The Yjs document is the external CRDT: its state is the   *)
(* set of write identifiers it has integrated, an update is a set of       *)
(* writes, applying an update is set union and an "update" event carries   *)
(* only the writes that were new to the document.                          *)
(***************************************************************************)
EXTENDS Integers, Sequences, FiniteSets, TLC

\* ---------------------------------------------------------------- bounds
MaxWrites == 2       \* local writes made in one run
MaxLen == 3          \* length of the texts over the two-letter alphabet

DefaultMaxFailures == 3   \* config.websocketOptions?.maxFailures ?? 3

Stores == {"s1", "s2", "s3"}
\* the characters of the texts set through useOrbitText
Alphabet == {"a", "b"}
\* the callbacks consumers pass to onStatusChange / offStatusChange
Listeners == {"l1", "l2"}
\* the callers that may each have one init() call of a store in flight
Callers == {"c1", "c2"}
StoreIds == {"a", "b"}
\* a write is named by the store it was made on and its number there
Writes == Stores \X (1..MaxWrites)

VARIABLES
  config,         \* OrbitConfig of each store (fixed at construction)
  doc,            \* ydoc: set of writes integrated by each store's document
  destroyed,      \* ydoc.destroy() has run
  persistTimer,   \* this.persistTimer: "null", "live" handle or "fired" (stale) handle
  timers,         \* number of scheduled, not yet fired or cleared, timeouts
  initialized,    \* this.initialized
  loading,        \* init() calls whose storage.load has not read the blob yet
  loadedQ,        \* blobs read by storage.load whose init() has not resumed yet
  disposePc,      \* position of dispose(): "none", "awaitPersist", "awaitStorageDispose", "done", "rejected"
  updateHandler,  \* TabSync.updateHandler !== null
  docHandlers,    \* number of TabSync update handlers registered on the ydoc
  onmessage,      \* TabSync channel.onmessage is set
  closed,         \* BroadcastChannel closed flag
  inbox,          \* message events queued for each store's BroadcastChannel object
  blob,           \* storage adapter: key -> persisted blob
  loadCalls,      \* storage.load invocations of each store
  connectCalls,   \* websocketProvider.connect() invocations of each store
  early,          \* history: writes made while a store of the same channel was not tab-connected
  ops,            \* history: save invocations of a store since its last document change
  lastOrigin,     \* history: origin of the store's last document change
  lastSaved,      \* history: the state passed to the store's last storage.save
  tabApplied,     \* history: writes integrated because of an inbound bus message
  published,      \* history: writes the store has published on the tab bus
  loaded,         \* history: writes contained in blobs that init() applied
  track,          \* which groups of history variables this specification records
  usage,          \* what the consumers of each store do with it in this specification
  websocketFailures, \* this.websocketFailures
  shouldConnect,  \* websocketProvider.shouldConnect (auto-reconnect flag)
  wsState,        \* the provider's socket: "idle", "connecting" or "connected"
  statusListeners,\* this.statusListeners: how often each callback is held
  subscribed,     \* history: callbacks whose last call was onStatusChange
  delivered,      \* history: the listener invocations of the last network event
  lastNet,        \* history: the last network event and the counter before it
  tripped,        \* history: the breaker has tripped
  errorsInRow,    \* history: connection errors since construction or the last "connected"
  afterTrip,      \* history: writes made after the breaker tripped
  ytext,          \* content of the Y.Text a useOrbitText hook of the store is bound to
  lastEdit,       \* history: the last setOrbitText call and what it did
  rejected,       \* history: the store's last rejected call and the document then
  requests,       \* storage adapter: requests issued and not yet completed
  lastOp,         \* history: the last completed save or delete of each key
  lastLoad,       \* history: the last completed load and what it resolved to
  ymap,           \* content of the Y.Map a useOrbitObject hook of the store is bound to
  lastUpdate,     \* history: the last updateObject call and the map before it
  tabDisposes,    \* history: how often TabSync.dispose() of the store's instance was called
  persistCalls,   \* history: how often persist() of the store was called and resolved
  seeded          \* the writes that are inserts of a useOrbitText initial value

vars == <<config, doc, destroyed, persistTimer, timers, initialized, loading,
          loadedQ, disposePc, updateHandler, docHandlers, onmessage, closed,
          inbox, blob, loadCalls, connectCalls, early, ops, lastOrigin,
          lastSaved, tabApplied, published, loaded, track, usage,
          websocketFailures, shouldConnect, wsState, statusListeners,
          subscribed, delivered, lastNet, tripped, errorsInRow, afterTrip,
          ytext, lastEdit, rejected, requests, lastOp, lastLoad, ymap,
          lastUpdate, tabDisposes, persistCalls, seeded>>

\* the state of the network channel and of the status listeners
netVars == <<websocketFailures, shouldConnect, wsState, statusListeners,
             subscribed, delivered, lastNet, tripped, errorsInRow>>

\* the requests of direct users of the storage adapter and their history
adapterVars == <<requests, lastOp, lastLoad>>

\* the history of the calls made on a store and on its TabSync
callVars == <<tabDisposes, persistCalls>>

\* the map of a useOrbitObject hook and the history of updateObject
objectVars == <<ymap, lastUpdate>>

\* ------------------------------------------------------------ data model
NoBlob == [present |-> FALSE, structs |-> {}]

\* Y.encodeStateAsUpdate(ydoc): the full document state as one update
EncodeStateAsUpdate(d) == [present |-> TRUE, structs |-> d]

\* the BroadcastChannel name a TabSync opens for a storeId
ChannelName(id) == <<"orbit-", id>>

\* mutant of StorageKey: every store uses one key
StorageKeyShared(s) == "a"

\* the key under which a store loads and saves its blob
StorageKey(s) == config[s].storeId

\* the store has been constructed in this specification
Built(s) == usage[s].built

HasStorage(s) == config[s].storage
HasTabSync(s) == config[s].enableTabSync
HasWebsocket(s) == config[s].websocket

\* mutant of ShouldBroadcast: the origin test inverted
BroadcastOnlyOwnOrigin(origin) == origin = "tabSync"

\* mutant of ShouldBroadcast: no origin test
BroadcastAnyOrigin(origin) == TRUE

\* the TabSync update handler publishes unless the origin is the TabSync itself
ShouldBroadcast(origin) == origin # "tabSync"

\* mutant of AcceptMessage: the storeId test inverted
AcceptMessageOtherId(s, m) == m.type = "update" /\ m.storeId # config[s].storeId

\* channel.onmessage: which messages are applied to the document
AcceptMessage(s, m) == m.type = "update" /\ m.storeId = config[s].storeId

\* tab sync of s is active: handler registered, listening, channel open
Connected(s) == HasTabSync(s) /\ docHandlers[s] > 0 /\ onmessage[s] /\ ~closed[s]

\* the stores whose TabSync opened the same channel name as s
Group(s) == {t \in Stores : Built(t) /\ Built(s) /\ HasTabSync(t) /\ HasTabSync(s)
                /\ ChannelName(config[t].storeId) = ChannelName(config[s].storeId)}

\* the writes made on store s so far (a document never loses a write)
Own(s) == {w \in doc[s] : w[1] = s}

\* the writes made under storeId id
WritesOf(id) == {w \in Writes : config[w[1]].storeId = id}

RECURSIVE SumOver(_, _)
SumOver(f, S) == IF S = {} THEN 0
                 ELSE LET x == CHOOSE y \in S : TRUE IN f[x] + SumOver(f, S \ {x})

WritesMade == SumOver([s \in Stores |-> Cardinality(Own(s))], Stores)

\* a history variable of group g takes its new value only where the
\* specification records that group
Hist(g, new, old) == IF g \in track THEN new ELSE old

\* ------------------------------------------------------- document events
\* clearTimeout(handle): cancels the timeout only if it has not fired yet
ClearTimeout(handle, n) == IF handle = "live" THEN n - 1 ELSE n

\* mutant of handleUpdate: the pending timeout is not cleared
handleUpdateNoClear(s) ==
  /\ timers' = [timers EXCEPT ![s] = @ + 1]
  /\ persistTimer' = [persistTimer EXCEPT ![s] = "live"]

\* OrbitStore.handleUpdate: restart the single debounce timer
handleUpdate(s) ==
  /\ timers' = [timers EXCEPT ![s] =
        (IF persistTimer[s] # "null" THEN ClearTimeout(persistTimer[s], @) ELSE @) + 1]
  /\ persistTimer' = [persistTimer EXCEPT ![s] = "live"]

\* mutant of PersistHandlerOn: handleUpdate is registered without storage too
PersistHandlerAlways(s) == ~destroyed[s]

\* the constructor registered handleUpdate iff storage is configured;
\* ydoc.destroy() removes every observer
PersistHandlerOn(s) == HasStorage(s) /\ ~destroyed[s]

\* n copies of message m
Copies(n, m) == [i \in 1..n |-> m]

\* TabSync.broadcastUpdate via channel.postMessage: one message event is
\* queued for every other open channel object of the same name
broadcastUpdate(box, s, delta, n) ==
  LET m == [type |-> "update", storeId |-> config[s].storeId,
            update |-> delta, from |-> s]
  IN [t \in Stores |->
        IF t # s /\ t \in Group(s) /\ ~closed[t] THEN box[t] \o Copies(n, m)
        ELSE box[t]]

\* number of postMessage calls one update event causes: each registered
\* TabSync update handler publishes unless the origin is the TabSync
Publishes(s, origin) ==
  IF ShouldBroadcast(origin) /\ ~closed[s] THEN docHandlers[s] ELSE 0

\* counting "none", "one", "many"
More(c) == IF c = "none" THEN "one" ELSE "many"

\* the save history of a store: how many saves it invoked since its last
\* document change, which call made the first of them, whether persist() or
\* dispose() made any, and how many changes the running burst has (the
\* changes since the debounce timer was last idle)
NoOps == [n |-> "none", first |-> "none", explicit |-> FALSE, burst |-> "none"]
Saved(h, kind) ==
  [n |-> More(h.n),
   first |-> IF h.n = "none" THEN kind ELSE h.first,
   explicit |-> h.explicit \/ kind # "timer",
   burst |-> h.burst]
Changed(h, pending) ==
  [n |-> "none", first |-> "none", explicit |-> FALSE,
   burst |-> IF pending THEN More(h.burst) ELSE "one"]

\* the ydoc "update" event for the writes `new` that were integrated
UpdateEvent(s, new, origin, box) ==
  /\ doc' = [doc EXCEPT ![s] = @ \cup new]
  /\ IF PersistHandlerOn(s) THEN handleUpdate(s)
     ELSE UNCHANGED <<persistTimer, timers>>
  /\ inbox' = broadcastUpdate(box, s, new, Publishes(s, origin))
  /\ published' = Hist("sync", [published EXCEPT ![s] =
        IF Publishes(s, origin) > 0 THEN @ \cup new ELSE @], published)
  /\ ops' = Hist("save", [ops EXCEPT ![s] = Changed(@, timers[s] > 0)], ops)
  /\ lastOrigin' = Hist("save", [lastOrigin EXCEPT ![s] = origin], lastOrigin)

\* Y.applyUpdate(ydoc, update, origin): integrates what is new; an update
\* that adds nothing emits no event
applyUpdate(s, update, origin, box) ==
  LET new == update \ doc[s]
  IN IF new # {} THEN UpdateEvent(s, new, origin, box)
     ELSE /\ inbox' = box
          /\ UNCHANGED <<doc, persistTimer, timers, published, ops, lastOrigin>>

\* OrbitStore.persist: encode the full state and save it under the store's key
persist(s, kind) ==
  IF HasStorage(s)
  THEN /\ blob' = [blob EXCEPT ![StorageKey(s)] = EncodeStateAsUpdate(doc[s])]
       /\ lastSaved' = Hist("save", [lastSaved EXCEPT ![s] = doc[s]], lastSaved)
       /\ ops' = Hist("save", [ops EXCEPT ![s] = Saved(@, kind)], ops)
  ELSE UNCHANGED <<blob, lastSaved, ops>>

\* mutant of BlobToApply: the loaded state is dropped
BlobIgnored(state) == {}

\* init applies the loaded state unless storage.load returned null
BlobToApply(state) == IF state.present THEN state.structs ELSE {}

\* the writes n consecutive transactions on store s make, in order
NextWrites(s, n) == [i \in 1..n |-> <<s, Cardinality(Own(s)) + i>>]

\* postMessage for each of the update events of the writes ws
RECURSIVE BroadcastEach(_, _, _, _)
BroadcastEach(box, s, ws, n) ==
  IF ws = <<>> THEN box
  ELSE BroadcastEach(broadcastUpdate(box, s, {Head(ws)}, n), s, Tail(ws), n)

\* the save history after n changes, the first with the timer `pending`,
\* the later ones with the timer `armed`
RECURSIVE ChangedEach(_, _, _, _)
ChangedEach(h, pending, armed, n) ==
  IF n = 0 THEN h ELSE ChangedEach(Changed(h, pending), armed, armed, n - 1)

\* the ydoc "update" events of the transactions that made the writes ws,
\* one event for each write: handleUpdate restarts the timer every time
UpdateEvents(s, ws, origin, box) ==
  LET new == {ws[i] : i \in 1..Len(ws)}
  IN /\ doc' = [doc EXCEPT ![s] = @ \cup new]
     /\ IF PersistHandlerOn(s) THEN handleUpdate(s)
        ELSE UNCHANGED <<persistTimer, timers>>
     /\ inbox' = BroadcastEach(box, s, ws, Publishes(s, origin))
     /\ published' = Hist("sync", [published EXCEPT ![s] =
           IF Publishes(s, origin) > 0 THEN @ \cup new ELSE @], published)
     /\ ops' = Hist("save", [ops EXCEPT ![s] =
           ChangedEach(@, timers[s] > 0, PersistHandlerOn(s) \/ timers[s] > 0,
                       Len(ws))], ops)
     /\ lastOrigin' = Hist("save", [lastOrigin EXCEPT ![s] = origin], lastOrigin)

\* ------------------------------------------------------- network channel
\* a store's maxWebsocketFailures
MaxWebsocketFailures(s) == config[s].maxFailures

NoListeners == [l \in Listeners |-> 0]
NoDelivery == [status |-> "none", calls |-> NoListeners, to |-> NoListeners]
NoNet == [kind |-> "none", before |-> 0]

\* mutant of AddListener: the callbacks are kept in a list
AddListenerToList(L, l) == [L EXCEPT ![l] = IF @ < 2 THEN @ + 1 ELSE @]

\* Set.add: a callback that is already held is not held twice
AddListener(L, l) == [L EXCEPT ![l] = 1]

\* Set.delete: removes the callback if it is held
DeleteListener(L, l) == [L EXCEPT ![l] = 0]

\* statusListeners.forEach((l) => l(status)): one call per held callback
Notify(s, status) ==
  delivered' = Hist("net", [delivered EXCEPT ![s] =
      [status |-> status, calls |-> statusListeners[s], to |-> subscribed[s]]],
      delivered)

\* the event invoked no listener
NotifyNobody(s) ==
  delivered' = Hist("net", [delivered EXCEPT ![s] =
      [NoDelivery EXCEPT !.to = subscribed[s]]], delivered)

\* mutant of ResetOnStatus: the counter survives a successful connect
KeepOnStatus(status, n) == n

\* the "status" handler resets the counter when the status is "connected"
ResetOnStatus(status, n) == IF status = "connected" THEN 0 ELSE n

\* the provider emits "status": the handler of setupWebSocketErrorHandlers
StatusEvent(s, status) ==
  /\ websocketFailures' = [websocketFailures EXCEPT ![s] = ResetOnStatus(status, @)]
  /\ Notify(s, status)
  /\ lastNet' = Hist("net", [lastNet EXCEPT ![s] =
        [kind |-> status, before |-> websocketFailures[s]]], lastNet)
  /\ errorsInRow' = Hist("net", [errorsInRow EXCEPT ![s] =
        IF status = "connected" THEN 0 ELSE @], errorsInRow)

\* mutant of BreakerTrips: the breaker trips one error early
BreakerTripsEarly(s, failures) == failures + 1 >= MaxWebsocketFailures(s)

\* the breaker condition of the "connection-error" handler
BreakerTrips(s, failures) == failures >= MaxWebsocketFailures(s)

\* mutant of ConnectionErrorEvent: the trip also stops tab sync and the timer
ConnectionErrorStopsLocal(s) ==
  LET n == websocketFailures[s] + 1
  IN /\ websocketFailures' = [websocketFailures EXCEPT ![s] = n]
     /\ shouldConnect' = [shouldConnect EXCEPT ![s] = ~BreakerTrips(s, n) /\ @]
     /\ IF BreakerTrips(s, n) THEN Notify(s, "disconnected") ELSE NotifyNobody(s)
     /\ tripped' = Hist("trip", [tripped EXCEPT ![s] = @ \/ BreakerTrips(s, n)], tripped)
     /\ lastNet' = Hist("net", [lastNet EXCEPT ![s] =
           [kind |-> "error", before |-> websocketFailures[s]]], lastNet)
     /\ errorsInRow' = Hist("net", [errorsInRow EXCEPT ![s] = @ + 1], errorsInRow)
     /\ docHandlers' = [docHandlers EXCEPT ![s] = IF BreakerTrips(s, n) THEN 0 ELSE @]
     /\ timers' = [timers EXCEPT ![s] = IF BreakerTrips(s, n) THEN 0 ELSE @]
     /\ UNCHANGED <<doc, persistTimer, updateHandler, onmessage, closed,
                    inbox, blob>>

\* the provider emits "connection-error": the handler of
\* setupWebSocketErrorHandlers counts it and, at maxFailures, switches
\* auto-reconnect off, disconnects and notifies the listeners
ConnectionErrorEvent(s) ==
  LET n == websocketFailures[s] + 1
  IN /\ websocketFailures' = [websocketFailures EXCEPT ![s] = n]
     /\ shouldConnect' = [shouldConnect EXCEPT ![s] = ~BreakerTrips(s, n) /\ @]
     /\ IF BreakerTrips(s, n) THEN Notify(s, "disconnected") ELSE NotifyNobody(s)
     /\ tripped' = Hist("trip", [tripped EXCEPT ![s] = @ \/ BreakerTrips(s, n)], tripped)
     /\ lastNet' = Hist("net", [lastNet EXCEPT ![s] =
           [kind |-> "error", before |-> websocketFailures[s]]], lastNet)
     /\ errorsInRow' = Hist("net", [errorsInRow EXCEPT ![s] = @ + 1], errorsInRow)
     /\ UNCHANGED <<doc, persistTimer, timers, updateHandler, docHandlers,
                    onmessage, closed, inbox, blob>>

\* websocketProvider.connect(): auto-reconnect on; a socket is opened, and
\* "connecting" emitted, unless one is open already
Connect(s) ==
  /\ shouldConnect' = [shouldConnect EXCEPT ![s] = TRUE]
  /\ IF wsState[s] = "idle"
     THEN /\ wsState' = [wsState EXCEPT ![s] = "connecting"]
          /\ StatusEvent(s, "connecting")
     ELSE UNCHANGED <<wsState, websocketFailures, delivered, lastNet, errorsInRow>>
  /\ UNCHANGED <<statusListeners, subscribed, tripped>>

\* websocketProvider.disconnect() and destroy() in dispose: the socket is
\* closed and the provider's observers are removed before any event
Disconnect(s) ==
  /\ shouldConnect' = [shouldConnect EXCEPT ![s] = FALSE]
  /\ wsState' = [wsState EXCEPT ![s] = "idle"]
  /\ UNCHANGED <<websocketFailures, statusListeners, subscribed, delivered,
                 lastNet, tripped, errorsInRow>>

\* store.getWebSocketProvider(): undefined without websocketUrl, otherwise
\* the provider with the flags of its socket
GetWebSocketProvider(s) ==
  IF HasWebsocket(s)
  THEN [defined |-> TRUE, wsconnected |-> (wsState[s] = "connected"),
        wsconnecting |-> (wsState[s] = "connecting")]
  ELSE [defined |-> FALSE, wsconnected |-> FALSE, wsconnecting |-> FALSE]

\* mutant of GetSnapshot: the connecting flag is not looked at
GetSnapshotTwoStates(s) ==
  LET provider == GetWebSocketProvider(s)
  IN IF ~provider.defined THEN "disconnected"
     ELSE IF provider.wsconnected THEN "connected" ELSE "disconnected"

\* useOrbitStatus.getSnapshot: the status the hook reports for store s
GetSnapshot(s) ==
  LET provider == GetWebSocketProvider(s)
  IN IF ~provider.defined THEN "disconnected"
     ELSE IF provider.wsconnected THEN "connected"
     ELSE IF provider.wsconnecting THEN "connecting"
     ELSE "disconnected"

\* TabSync.init: register the update handler and the message handler
TabSyncInit(s) ==
  /\ updateHandler' = [updateHandler EXCEPT ![s] = TRUE]
  /\ docHandlers' = [docHandlers EXCEPT ![s] = @ + 1]
  /\ onmessage' = [onmessage EXCEPT ![s] = TRUE]

\* the tail of OrbitStore.init after the storage load
InitTail(s) ==
  /\ IF HasTabSync(s) THEN TabSyncInit(s)
     ELSE UNCHANGED <<updateHandler, docHandlers, onmessage>>
  /\ connectCalls' = Hist("init", [connectCalls EXCEPT ![s] =
        IF HasWebsocket(s) THEN @ + 1 ELSE @], connectCalls)
  /\ IF HasWebsocket(s) THEN Connect(s) ELSE UNCHANGED netVars
  /\ initialized' = [initialized EXCEPT ![s] = TRUE]

\* ------------------------------------------------------------ text hook
HelloWorld == <<"H", "e", "l", "l", "o", " ", "W", "o", "r", "l", "d">>
HelloOrbitWorld == <<"H", "e", "l", "l", "o", " ", "O", "r", "b", "i", "t", " ",
                     "W", "o", "r", "l", "d">>

\* the texts a consumer passes to setOrbitText
Texts == UNION {[1..n -> Alphabet] : n \in 0..MaxLen} \cup {HelloWorld, HelloOrbitWorld}

\* mutant of SameText: the early return is missing
NeverSameText(oldText, newText) == FALSE

\* oldText === newText
SameText(oldText, newText) == oldText = newText

\* the first while loop of setOrbitText, from commonPrefix = i
RECURSIVE ScanPrefix(_, _, _)
ScanPrefix(oldText, newText, i) ==
  IF i < Len(oldText) /\ i < Len(newText) /\ oldText[i + 1] = newText[i + 1]
  THEN ScanPrefix(oldText, newText, i + 1)
  ELSE i

\* mutant of SuffixBound: the suffix scan may run into the common prefix
SuffixBoundOverlapping(len, commonPrefix) == len

\* mutant of SuffixBound: no suffix is scanned
SuffixBoundNone(len, commonPrefix) == 0

\* the bound of the suffix scan: text.length - commonPrefix
SuffixBound(len, commonPrefix) == len - commonPrefix

\* the second while loop of setOrbitText, from commonSuffix = j
RECURSIVE ScanSuffix(_, _, _, _)
ScanSuffix(oldText, newText, commonPrefix, j) ==
  IF /\ j < SuffixBound(Len(oldText), commonPrefix)
     /\ j < SuffixBound(Len(newText), commonPrefix)
     /\ oldText[Len(oldText) - j] = newText[Len(newText) - j]
  THEN ScanSuffix(oldText, newText, commonPrefix, j + 1)
  ELSE j

\* mutant of Middle: the slice is taken from the start of the text
MiddleFromStart(text, commonPrefix, commonSuffix) ==
  SubSeq(text, 1, Len(text) - commonSuffix - commonPrefix)

\* text.slice(commonPrefix, text.length - commonSuffix)
Middle(text, commonPrefix, commonSuffix) ==
  SubSeq(text, commonPrefix + 1, Len(text) - commonSuffix)

\* ytext.delete(index, length)
TextDelete(text, index, length) ==
  SubSeq(text, 1, index) \o SubSeq(text, index + length + 1, Len(text))

\* ytext.insert(index, str)
TextInsert(text, index, str) ==
  SubSeq(text, 1, index) \o str \o SubSeq(text, index + 1, Len(text))

\* what setOrbitText issues inside the transaction for oldText -> newText
Diff(oldText, newText) ==
  LET commonPrefix == ScanPrefix(oldText, newText, 0)
      commonSuffix == ScanSuffix(oldText, newText, commonPrefix, 0)
  IN [commonPrefix |-> commonPrefix,
      commonSuffix |-> commonSuffix,
      deletes |-> commonPrefix + commonSuffix < Len(oldText),
      deleteLength |-> Len(oldText) - commonPrefix - commonSuffix,
      inserts |-> commonPrefix + commonSuffix < Len(newText),
      insertText |-> Middle(newText, commonPrefix, commonSuffix)]

\* the text after the transaction: the delete, then the insert
ApplyDiff(text, d) ==
  LET afterDelete == IF d.deletes
                     THEN TextDelete(text, d.commonPrefix, d.deleteLength)
                     ELSE text
  IN IF d.inserts THEN TextInsert(afterDelete, d.commonPrefix, d.insertText)
     ELSE afterDelete

NoEdit == [called |-> FALSE]

\* the record of a setOrbitText call
Edit(oldText, newText, d, transacted, event) ==
  [called |-> TRUE, old |-> oldText, new |-> newText, diff |-> d,
   transacted |-> transacted, event |-> event]

\* mutant of SetText: the delete and the insert are two transactions
SetTextUntransacted(s, newText) ==
  LET oldText == ytext[s]
      d == Diff(oldText, newText)
      n == (IF d.deletes THEN 1 ELSE 0) + (IF d.inserts THEN 1 ELSE 0)
      ws == NextWrites(s, n)
      new == {ws[i] : i \in 1..n}
  IN /\ Built(s)
     /\ usage[s].edits
     /\ ~destroyed[s]
     /\ IF SameText(oldText, newText)
        THEN /\ lastEdit' = Hist("text", Edit(oldText, newText, d, FALSE, FALSE), lastEdit)
             /\ UNCHANGED <<doc, persistTimer, timers, inbox, published, ops,
                            lastOrigin, early, afterTrip, ytext>>
        ELSE /\ WritesMade + n <= MaxWrites
             /\ ytext' = [ytext EXCEPT ![s] = ApplyDiff(oldText, d)]
             /\ UpdateEvents(s, ws, "local", inbox)
             /\ early' = Hist("sync", IF \A t \in Group(s) \cup {s} : Connected(t)
                                       THEN early ELSE early \cup new, early)
             /\ afterTrip' = Hist("trip", IF tripped[s] THEN afterTrip \cup new
                                         ELSE afterTrip, afterTrip)
             /\ lastEdit' = Hist("text", Edit(oldText, newText, d, FALSE, TRUE), lastEdit)
     /\ UNCHANGED <<config, destroyed, initialized, loading, loadedQ, disposePc,
                    updateHandler, docHandlers, onmessage, closed, blob,
                    loadCalls, connectCalls, lastSaved, tabApplied, loaded,
                    track, usage, netVars, rejected, adapterVars, callVars,
                    seeded, objectVars>>

\* setOrbitText(newText) of a useOrbitText hook on store s: nothing when the
\* text is the same, otherwise one transaction with the delete and the
\* insert, which emits one update event if it changed the document
SetText(s, newText) ==
  LET oldText == ytext[s]
      d == Diff(oldText, newText)
      w == <<s, Cardinality(Own(s)) + 1>>
  IN /\ Built(s)
     /\ usage[s].edits
     /\ ~destroyed[s]
     /\ IF SameText(oldText, newText)
        THEN /\ lastEdit' = Hist("text", Edit(oldText, newText, d, FALSE, FALSE), lastEdit)
             /\ UNCHANGED <<doc, persistTimer, timers, inbox, published, ops,
                            lastOrigin, early, afterTrip, ytext>>
        ELSE IF d.deletes \/ d.inserts
        THEN /\ WritesMade < MaxWrites
             /\ ytext' = [ytext EXCEPT ![s] = ApplyDiff(oldText, d)]
             /\ UpdateEvent(s, {w}, "local", inbox)
             /\ early' = Hist("sync", IF \A t \in Group(s) \cup {s} : Connected(t)
                                       THEN early ELSE early \cup {w}, early)
             /\ afterTrip' = Hist("trip", IF tripped[s] THEN afterTrip \cup {w}
                                         ELSE afterTrip, afterTrip)
             /\ lastEdit' = Hist("text", Edit(oldText, newText, d, TRUE, TRUE), lastEdit)
        ELSE /\ lastEdit' = Hist("text", Edit(oldText, newText, d, TRUE, FALSE), lastEdit)
             /\ UNCHANGED <<doc, persistTimer, timers, inbox, published, ops,
                            lastOrigin, early, afterTrip, ytext>>
     /\ UNCHANGED <<config, destroyed, initialized, loading, loadedQ, disposePc,
                    updateHandler, docHandlers, onmessage, closed, blob,
                    loadCalls, connectCalls, lastSaved, tabApplied, loaded,
                    track, usage, netVars, rejected, adapterVars, callVars, seeded, objectVars>>

\* ------------------------------------------------------ rejected calls
\* no call of the store has rejected yet
NoRejection == [op |-> "none", doc |-> {}]

\* the call `op` of store s rejects: the caller (for the debounce timer's
\* callback, nobody) gets the error of the storage adapter
Rejects(s, op) ==
  rejected' = Hist("life", [rejected EXCEPT ![s] = [op |-> op, doc |-> doc[s]]],
                   rejected)

\* -------------------------------------------------------- storage adapter
\* the states direct users of the adapter pass to save: the empty state and
\* the states of one write
Payloads ==
  {EncodeStateAsUpdate(d) : d \in {{}} \cup {{<<"s1", n>>} : n \in 1..MaxWrites}}

\* the calls of the adapter: load(id), save(id, state), delete(id)
Requests ==
  [op : {"load", "delete"}, id : StoreIds, state : {NoBlob}]
    \cup [op : {"save"}, id : StoreIds, state : Payloads]

NoOp == [op |-> "none", state |-> NoBlob]
NoLoad == [called |-> FALSE]

\* IndexedDBAdapter.load: store.get(documentId), null unless a Uint8Array
\* is stored
AdapterGet(b, id) == IF b[id].present THEN b[id] ELSE NoBlob

\* mutant of AdapterPut: the state is stored under every key
AdapterPutEverywhere(b, id, state) == [k \in StoreIds |-> state]

\* IndexedDBAdapter.save: store.put(state, documentId)
AdapterPut(b, id, state) == [b EXCEPT ![id] = state]

\* IndexedDBAdapter.delete: store.delete(documentId)
AdapterDelete(b, id) == [b EXCEPT ![id] = NoBlob]


\* ------------------------------------------------------------ object hook
\* the properties of the object of a useOrbitObject hook and their values
Props == {"p", "q"}
Values == {"v1", "v2"}
\* a Y.Map without entries
EmptyMap == [k \in Props |-> "absent"]
\* the arguments of updateObject: each property is left out ("absent"),
\* given as undefined, or given a value
Partials == [Props -> Values \cup {"absent", "undefined"}]
NoUpdate == [called |-> FALSE]

\* Object.entries(updates): the properties present in the argument
Entries(updates) == {k \in Props : updates[k] # "absent"}

\* mutant of SetsProperty: undefined is set like a value
SetsPropertyAlsoUndefined(updates, k) == k \in Entries(updates)

\* updateObject calls map.set for the entries whose value is not undefined
SetsProperty(updates, k) == k \in Entries(updates) /\ updates[k] # "undefined"

\* the Y.Map after the map.set calls of updateObject(updates)
MapSet(map, updates) ==
  [k \in Props |-> IF SetsProperty(updates, k) THEN updates[k] ELSE map[k]]

\* updateObject(updates) of a useOrbitObject hook on store s: one map.set,
\* each its own transaction, for every entry that is not undefined
UpdateObject(s, updates) ==
  LET n == Cardinality({k \in Props : SetsProperty(updates, k)})
      ws == NextWrites(s, n)
      new == {ws[i] : i \in 1..n}
  IN /\ Built(s)
     /\ usage[s].edits
     /\ ~destroyed[s]
     /\ WritesMade + n <= MaxWrites
     /\ ymap' = [ymap EXCEPT ![s] = MapSet(@, updates)]
     /\ lastUpdate' = Hist("object", [called |-> TRUE, store |-> s,
                                      before |-> ymap[s], updates |-> updates],
                           lastUpdate)
     /\ IF n > 0
        THEN /\ UpdateEvents(s, ws, "local", inbox)
             /\ early' = Hist("sync", IF \A t \in Group(s) \cup {s} : Connected(t)
                                       THEN early ELSE early \cup new, early)
             /\ afterTrip' = Hist("trip", IF tripped[s] THEN afterTrip \cup new
                                         ELSE afterTrip, afterTrip)
        ELSE UNCHANGED <<doc, persistTimer, timers, inbox, published, ops,
                         lastOrigin, early, afterTrip>>
     /\ UNCHANGED <<config, destroyed, initialized, loading, loadedQ, disposePc,
                    updateHandler, docHandlers, onmessage, closed, blob,
                    loadCalls, connectCalls, lastSaved, tabApplied, loaded,
                    track, usage, netVars, ytext, lastEdit, rejected,
                    adapterVars, callVars, seeded>>

\* counting 0, 1, "2 or more"
Twice(n) == IF n < 2 THEN n + 1 ELSE n

\* ---------------------------------------------------------------- actions
\* a consumer writes to a structure of store s (map.set, text.insert)
LocalWrite(s) ==
  /\ Built(s)
  /\ WritesMade < MaxWrites
  /\ ~destroyed[s]
  /\ LET w == <<s, Cardinality(Own(s)) + 1>>
     IN /\ UpdateEvent(s, {w}, "local", inbox)
        /\ early' = Hist("sync", IF \A t \in Group(s) \cup {s} : Connected(t)
                                  THEN early ELSE early \cup {w}, early)
        /\ afterTrip' = Hist("trip", IF tripped[s] THEN afterTrip \cup {w}
                                    ELSE afterTrip, afterTrip)
  /\ UNCHANGED <<config, destroyed, initialized, loading, loadedQ, disposePc,
                 updateHandler, docHandlers, onmessage, closed, blob,
                 loadCalls, connectCalls, lastSaved, tabApplied, loaded, track, usage,
                 netVars, ytext, lastEdit, rejected, adapterVars, callVars, seeded, objectVars>>

\* the length of the shared text in the document of store s, counted in
\* copies of the initial value
TextLength(s) == Cardinality(doc[s] \cap seeded)

\* the initial-value effect of useOrbitText runs in a component mounted
\* under the initialized store s with a non-empty initialValue: it inserts
\* the value when the text of s is empty
Seed(s) ==
  /\ Built(s)
  /\ initialized[s]
  /\ ~destroyed[s]
  /\ WritesMade < MaxWrites
  /\ LET w == <<s, Cardinality(Own(s)) + 1>>
     IN IF TextLength(s) = 0
        THEN /\ UpdateEvent(s, {w}, "local", inbox)
             /\ seeded' = seeded \cup {w}
             /\ early' = Hist("sync", IF \A t \in Group(s) \cup {s} : Connected(t)
                                       THEN early ELSE early \cup {w}, early)
        ELSE UNCHANGED <<doc, persistTimer, timers, inbox, published, ops,
                         lastOrigin, seeded, early>>
  /\ UNCHANGED <<config, destroyed, initialized, loading, loadedQ, disposePc,
                 updateHandler, docHandlers, onmessage, closed, blob,
                 loadCalls, connectCalls, lastSaved, tabApplied, loaded, track, usage,
                 netVars, afterTrip, ytext, lastEdit, rejected, adapterVars, callVars,
                 objectVars>>

\* OrbitStore.init is called: returns at once when initialized, runs to the
\* end without storage, otherwise starts storage.load and suspends
InitCall(s) ==
  /\ Built(s)
  /\ disposePc[s] = "none"
  /\ IF initialized[s]
     THEN UNCHANGED <<updateHandler, docHandlers, onmessage, connectCalls,
                      initialized, loadCalls, loading, netVars>>
     ELSE IF HasStorage(s)
     THEN /\ loading[s] + Len(loadedQ[s]) <
                (IF usage[s].races THEN Cardinality(Callers) ELSE 1)
          /\ loading' = [loading EXCEPT ![s] = @ + 1]
          /\ loadCalls' = Hist("init", [loadCalls EXCEPT ![s] = @ + 1], loadCalls)
          /\ UNCHANGED <<updateHandler, docHandlers, onmessage, connectCalls,
                         initialized, netVars>>
     ELSE /\ InitTail(s)
          /\ UNCHANGED <<loadCalls, loading>>
  /\ UNCHANGED <<config, doc, destroyed, persistTimer, timers, loadedQ,
                 disposePc, closed, inbox, blob, early, ops, lastOrigin,
                 lastSaved, tabApplied, published, loaded, track, usage,
                 afterTrip, ytext, lastEdit, rejected, adapterVars, callVars, seeded, objectVars>>

\* the storage adapter reads the blob for a pending load
LoadRead(s) ==
  /\ loading[s] > 0
  /\ loading' = [loading EXCEPT ![s] = @ - 1]
  /\ loadedQ' = [loadedQ EXCEPT ![s] = Append(@, blob[StorageKey(s)])]
  /\ UNCHANGED <<config, doc, destroyed, persistTimer, timers, initialized,
                 disposePc, updateHandler, docHandlers, onmessage, closed,
                 inbox, blob, loadCalls, connectCalls, early, ops, lastOrigin,
                 lastSaved, tabApplied, published, loaded, track, usage,
                 netVars, afterTrip, ytext, lastEdit, rejected, adapterVars, callVars, seeded, objectVars>>

\* init resumes after the load: apply the blob, then tab sync, then connect
InitResume(s) ==
  /\ loadedQ[s] # <<>>
  /\ loadedQ' = [loadedQ EXCEPT ![s] = Tail(@)]
  /\ LET state == Head(loadedQ[s])
     IN /\ applyUpdate(s, BlobToApply(state), "storage", inbox)
        /\ loaded' = Hist("init", [loaded EXCEPT ![s] = @ \cup state.structs], loaded)
  /\ InitTail(s)
  /\ UNCHANGED <<config, destroyed, loading, disposePc, closed, blob,
                 loadCalls, early, lastSaved, tabApplied, track, usage,
                 afterTrip, ytext, lastEdit, rejected, adapterVars, callVars, seeded, objectVars>>

\* mutant of Deliver: the receiver posts every message it gets back to the
\* sender
DeliverEcho(t) ==
  /\ inbox[t] # <<>>
  /\ LET m == Head(inbox[t])
         box == [inbox EXCEPT ![t] = Tail(@),
                              ![m.from] = Append(@, [m EXCEPT !.from = t])]
     IN IF ~closed[t] /\ onmessage[t] /\ AcceptMessage(t, m)
        THEN /\ applyUpdate(t, m.update, "tabSync", box)
             /\ tabApplied' = Hist("sync", [tabApplied EXCEPT ![t] =
                   @ \cup (m.update \ doc[t])], tabApplied)
        ELSE /\ inbox' = [inbox EXCEPT ![t] = Tail(@)]
             /\ UNCHANGED <<doc, persistTimer, timers, published, ops,
                            lastOrigin, tabApplied>>
  /\ UNCHANGED <<config, destroyed, initialized, loading, loadedQ, disposePc,
                 updateHandler, docHandlers, onmessage, closed, blob,
                 loadCalls, connectCalls, early, lastSaved, loaded, track, usage,
                 netVars, afterTrip, ytext, lastEdit, rejected, adapterVars,
                 callVars, seeded, objectVars>>

\* a message event is dispatched to the BroadcastChannel object of store t
Deliver(t) ==
  /\ inbox[t] # <<>>
  /\ LET m == Head(inbox[t])
         box == [inbox EXCEPT ![t] = Tail(@)]
     IN IF ~closed[t] /\ onmessage[t] /\ AcceptMessage(t, m)
        THEN /\ applyUpdate(t, m.update, "tabSync", box)
             /\ tabApplied' = Hist("sync", [tabApplied EXCEPT ![t] =
                   @ \cup (m.update \ doc[t])], tabApplied)
        ELSE /\ inbox' = box
             /\ UNCHANGED <<doc, persistTimer, timers, published, ops,
                            lastOrigin, tabApplied>>
  /\ UNCHANGED <<config, destroyed, initialized, loading, loadedQ, disposePc,
                 updateHandler, docHandlers, onmessage, closed, blob,
                 loadCalls, connectCalls, early, lastSaved, loaded, track, usage,
                 netVars, afterTrip, ytext, lastEdit, rejected, adapterVars, callVars, seeded, objectVars>>

\* the debounce timeout fires: its callback calls persist()
TimerFire(s) ==
  /\ timers[s] > 0
  /\ timers' = [timers EXCEPT ![s] = @ - 1]
  /\ persistTimer' = [persistTimer EXCEPT ![s] =
        IF timers[s] = 1 /\ @ = "live" THEN "fired" ELSE @]
  /\ persist(s, "timer")
  /\ UNCHANGED <<config, doc, destroyed, initialized, loading, loadedQ,
                 disposePc, updateHandler, docHandlers, onmessage, closed,
                 inbox, loadCalls, connectCalls, early, lastOrigin,
                 tabApplied, published, loaded, track, usage,
                 netVars, afterTrip, ytext, lastEdit, rejected, adapterVars, callVars, seeded, objectVars>>

\* the consumer calls persist(): without storage it returns at once
PersistCall(s) ==
  /\ usage[s].persists
  /\ disposePc[s] = "none"
  /\ persist(s, "persist")
  /\ persistCalls' = Hist("bare", [persistCalls EXCEPT ![s] = Twice(@)], persistCalls)
  /\ UNCHANGED <<config, doc, destroyed, persistTimer, timers, initialized,
                 loading, loadedQ, disposePc, updateHandler, docHandlers,
                 onmessage, closed, inbox, loadCalls, connectCalls, early,
                 lastOrigin, tabApplied, published, loaded, track, usage,
                 netVars, afterTrip, ytext, lastEdit, rejected, adapterVars,
                 tabDisposes, seeded, objectVars>>

\* TabSync.dispose (the channel is closed: its queued events are dropped),
\* the provider's disconnect and destroy, then ydoc.destroy, as
\* OrbitStore.dispose runs them
Teardown(s) ==
  /\ updateHandler' = [updateHandler EXCEPT ![s] = FALSE]
  /\ docHandlers' = [docHandlers EXCEPT ![s] = 0]
  /\ closed' = [closed EXCEPT ![s] = IF HasTabSync(s) THEN TRUE ELSE @]
  /\ inbox' = [inbox EXCEPT ![s] = <<>>]
  /\ IF HasWebsocket(s) THEN Disconnect(s) ELSE UNCHANGED netVars
  /\ destroyed' = [destroyed EXCEPT ![s] = TRUE]

\* mutant of clearPersistTimer: dispose leaves the timer running
keepPersistTimer(s) == UNCHANGED <<timers, persistTimer>>

\* the head of OrbitStore.dispose: cancel the pending debounce timer
clearPersistTimer(s) ==
  /\ timers' = [timers EXCEPT ![s] =
        IF persistTimer[s] # "null" THEN ClearTimeout(persistTimer[s], @) ELSE @]
  /\ persistTimer' = [persistTimer EXCEPT ![s] = "null"]

\* mutant of DisposeCall: the teardown runs before the final save has completed
DisposeCallTeardownFirst(s) ==
  /\ usage[s].disposes
  /\ disposePc[s] = "none"
  /\ clearPersistTimer(s)
  /\ persist(s, "dispose")
  /\ Teardown(s)
  /\ disposePc' = [disposePc EXCEPT ![s] =
        IF HasStorage(s) THEN "awaitPersist" ELSE "done"]
  /\ initialized' = [initialized EXCEPT ![s] = IF HasStorage(s) THEN @ ELSE FALSE]
  /\ UNCHANGED <<config, doc, loading, loadedQ, onmessage, loadCalls,
                 connectCalls, early, lastOrigin, tabApplied, published, loaded, track, usage,
                 afterTrip, ytext, lastEdit, rejected, adapterVars, callVars, seeded, objectVars>>

\* OrbitStore.dispose is called: cancel the timer and start the final persist
DisposeCall(s) ==
  /\ usage[s].disposes
  /\ disposePc[s] = "none"
  /\ clearPersistTimer(s)
  /\ persist(s, "dispose")
  /\ IF HasStorage(s)
     THEN /\ disposePc' = [disposePc EXCEPT ![s] = "awaitPersist"]
          /\ UNCHANGED <<updateHandler, docHandlers, closed, inbox, destroyed,
                         initialized, netVars>>
     ELSE /\ disposePc' = [disposePc EXCEPT ![s] = "done"]
          /\ Teardown(s)
          /\ initialized' = [initialized EXCEPT ![s] = FALSE]
  /\ UNCHANGED <<config, doc, loading, loadedQ, onmessage, loadCalls,
                 connectCalls, early, lastOrigin, tabApplied, published, loaded, track, usage,
                 afterTrip, ytext, lastEdit, rejected, adapterVars, callVars, seeded, objectVars>>

\* dispose resumes after the final save: tear down, then storage.dispose()
DisposeTeardown(s) ==
  /\ disposePc[s] = "awaitPersist"
  /\ disposePc' = [disposePc EXCEPT ![s] = "awaitStorageDispose"]
  /\ Teardown(s)
  /\ UNCHANGED <<config, doc, persistTimer, timers, initialized, loading,
                 loadedQ, onmessage, blob, loadCalls, connectCalls, early, ops,
                 lastOrigin, lastSaved, tabApplied, published, loaded, track, usage,
                 afterTrip, ytext, lastEdit, rejected, adapterVars, callVars, seeded, objectVars>>

\* dispose resumes after storage.dispose(): the store is no longer initialized
DisposeFinish(s) ==
  /\ disposePc[s] = "awaitStorageDispose"
  /\ disposePc' = [disposePc EXCEPT ![s] = "done"]
  /\ initialized' = [initialized EXCEPT ![s] = FALSE]
  /\ UNCHANGED <<config, doc, destroyed, persistTimer, timers, loading,
                 loadedQ, updateHandler, docHandlers, onmessage, closed,
                 inbox, blob, loadCalls, connectCalls, early, ops, lastOrigin,
                 lastSaved, tabApplied, published, loaded, track, usage,
                 netVars, afterTrip, ytext, lastEdit, rejected, adapterVars, callVars, seeded, objectVars>>

\* OrbitStore.persist when storage.save rejects: the state was encoded and
\* passed to the adapter, nothing was stored
persistRejected(s, kind) ==
  /\ lastSaved' = Hist("save", [lastSaved EXCEPT ![s] = doc[s]], lastSaved)
  /\ ops' = Hist("save", [ops EXCEPT ![s] = Saved(@, kind)], ops)
  /\ UNCHANGED blob

\* the consumer calls persist() and storage.save rejects: the await in
\* persist() throws to the caller
PersistRejects(s) ==
  /\ usage[s].persists
  /\ disposePc[s] = "none"
  /\ HasStorage(s)
  /\ persistRejected(s, "persist")
  /\ Rejects(s, "persist")
  /\ UNCHANGED <<config, doc, destroyed, persistTimer, timers, initialized,
                 loading, loadedQ, disposePc, updateHandler, docHandlers,
                 onmessage, closed, inbox, loadCalls, connectCalls, early,
                 lastOrigin, tabApplied, published, loaded, track, usage,
                 netVars, afterTrip, ytext, lastEdit, adapterVars, callVars, seeded, objectVars>>

\* mutant of TimerFireRejects: the failed save is retried after the delay
TimerFireRetries(s) ==
  /\ timers[s] > 0
  /\ HasStorage(s)
  /\ UNCHANGED <<timers, persistTimer>>
  /\ persistRejected(s, "timer")
  /\ Rejects(s, "timer")
  /\ UNCHANGED <<config, doc, destroyed, initialized, loading, loadedQ,
                 disposePc, updateHandler, docHandlers, onmessage, closed,
                 inbox, loadCalls, connectCalls, early, lastOrigin,
                 tabApplied, published, loaded, track, usage,
                 netVars, afterTrip, ytext, lastEdit, adapterVars, callVars, seeded, objectVars>>

\* the debounce timeout fires and the storage.save of its persist() rejects:
\* the callback does not await the promise, nothing else runs
TimerFireRejects(s) ==
  /\ timers[s] > 0
  /\ HasStorage(s)
  /\ timers' = [timers EXCEPT ![s] = @ - 1]
  /\ persistTimer' = [persistTimer EXCEPT ![s] =
        IF timers[s] = 1 /\ @ = "live" THEN "fired" ELSE @]
  /\ persistRejected(s, "timer")
  /\ Rejects(s, "timer")
  /\ UNCHANGED <<config, doc, destroyed, initialized, loading, loadedQ,
                 disposePc, updateHandler, docHandlers, onmessage, closed,
                 inbox, loadCalls, connectCalls, early, lastOrigin,
                 tabApplied, published, loaded, track, usage,
                 netVars, afterTrip, ytext, lastEdit, adapterVars, callVars, seeded, objectVars>>

\* mutant of LoadRejects: the failed init() resets the debounce timer
LoadRejectsClearsTimer(s) ==
  /\ loading[s] > 0
  /\ loading' = [loading EXCEPT ![s] = @ - 1]
  /\ clearPersistTimer(s)
  /\ Rejects(s, "init")
  /\ UNCHANGED <<config, doc, destroyed, initialized,
                 loadedQ, disposePc, updateHandler, docHandlers, onmessage,
                 closed, inbox, blob, loadCalls, connectCalls, early, ops,
                 lastOrigin, lastSaved, tabApplied, published, loaded, track,
                 usage, netVars, afterTrip, ytext, lastEdit, adapterVars, callVars, seeded,
                 objectVars>>

\* the storage.load of a pending init() rejects: the await in init() throws
\* to the caller before anything is applied or set
LoadRejects(s) ==
  /\ loading[s] > 0
  /\ loading' = [loading EXCEPT ![s] = @ - 1]
  /\ Rejects(s, "init")
  /\ UNCHANGED <<config, doc, destroyed, persistTimer, timers, initialized,
                 loadedQ, disposePc, updateHandler, docHandlers, onmessage,
                 closed, inbox, blob, loadCalls, connectCalls, early, ops,
                 lastOrigin, lastSaved, tabApplied, published, loaded, track,
                 usage, netVars, afterTrip, ytext, lastEdit, adapterVars, callVars, seeded,
                 objectVars>>

\* OrbitStore.dispose is called and the storage.save of its final persist
\* rejects: the await in dispose() throws to the caller and the rest of
\* dispose() does not run
DisposeRejects(s) ==
  /\ usage[s].disposes
  /\ disposePc[s] = "none"
  /\ HasStorage(s)
  /\ clearPersistTimer(s)
  /\ persistRejected(s, "dispose")
  /\ disposePc' = [disposePc EXCEPT ![s] = "rejected"]
  /\ Rejects(s, "dispose")
  /\ UNCHANGED <<config, doc, destroyed, initialized, loading, loadedQ,
                 updateHandler, docHandlers, onmessage, closed, inbox,
                 loadCalls, connectCalls, early, lastOrigin, tabApplied,
                 published, loaded, track, usage, netVars, afterTrip, ytext,
                 lastEdit, adapterVars, callVars, seeded, objectVars>>

\* the store and network state a request of the adapter does not touch
nonAdapterVars ==
  <<config, doc, destroyed, persistTimer, timers, initialized, loading,
    loadedQ, disposePc, updateHandler, docHandlers, onmessage, closed, inbox,
    loadCalls, connectCalls, early, ops, lastOrigin, lastSaved, tabApplied,
    published, loaded, track, usage, netVars, afterTrip, ytext, lastEdit,
    rejected, objectVars, callVars, seeded>>

\* a caller issues load, save or delete: after `await this.init()` the
\* request is placed in a transaction, and transactions on the one object
\* store run in the order they were created
AdapterCall(r) ==
  /\ Len(requests) < Cardinality(Callers)
  /\ requests' = Append(requests, r)
  /\ UNCHANGED <<blob, lastOp, lastLoad>>
  /\ UNCHANGED nonAdapterVars

\* the oldest request is a save and succeeds: its promise resolves
AdapterSaveDone ==
  /\ requests # <<>>
  /\ Head(requests).op = "save"
  /\ LET r == Head(requests)
     IN /\ blob' = AdapterPut(blob, r.id, r.state)
        /\ lastOp' = Hist("adapter", [lastOp EXCEPT ![r.id] =
              [op |-> "save", state |-> r.state]], lastOp)
  /\ requests' = Tail(requests)
  /\ UNCHANGED lastLoad
  /\ UNCHANGED nonAdapterVars

\* the oldest request is a delete and succeeds: its promise resolves
AdapterDeleteDone ==
  /\ requests # <<>>
  /\ Head(requests).op = "delete"
  /\ LET r == Head(requests)
     IN /\ blob' = AdapterDelete(blob, r.id)
        /\ lastOp' = Hist("adapter", [lastOp EXCEPT ![r.id] =
              [op |-> "delete", state |-> NoBlob]], lastOp)
  /\ requests' = Tail(requests)
  /\ UNCHANGED lastLoad
  /\ UNCHANGED nonAdapterVars

\* the oldest request is a load and succeeds: its promise resolves to the
\* stored state or to null
AdapterLoadDone ==
  /\ requests # <<>>
  /\ Head(requests).op = "load"
  /\ LET r == Head(requests)
     IN lastLoad' = Hist("adapter", [called |-> TRUE, id |-> r.id,
                                     result |-> AdapterGet(blob, r.id)], lastLoad)
  /\ requests' = Tail(requests)
  /\ UNCHANGED <<blob, lastOp>>
  /\ UNCHANGED nonAdapterVars

\* TabSync.init() called on the TabSync of store s
TabInit(s) ==
  /\ Built(s)
  /\ HasTabSync(s)
  /\ docHandlers[s] < Cardinality(Callers)
  /\ TabSyncInit(s)
  /\ UNCHANGED <<config, doc, destroyed, persistTimer, timers, initialized,
                 loading, loadedQ, disposePc, closed, inbox, blob, loadCalls,
                 connectCalls, early, ops, lastOrigin, lastSaved, tabApplied,
                 published, loaded, track, usage, netVars, afterTrip, ytext,
                 lastEdit, rejected, adapterVars, callVars, seeded, objectVars>>

\* mutant of TabSyncDispose: the channel is left open
TabSyncDisposeKeepsChannel(s) ==
  /\ Built(s)
  /\ HasTabSync(s)
  /\ docHandlers' = [docHandlers EXCEPT ![s] = IF updateHandler[s] THEN @ - 1 ELSE @]
  /\ updateHandler' = [updateHandler EXCEPT ![s] = FALSE]
  /\ tabDisposes' = Hist("tab", [tabDisposes EXCEPT ![s] = Twice(@)], tabDisposes)
  /\ UNCHANGED <<config, doc, destroyed, persistTimer, timers, initialized,
                 loading, loadedQ, disposePc, onmessage, blob, loadCalls,
                 connectCalls, early, ops, lastOrigin, lastSaved, tabApplied,
                 published, loaded, track, usage, netVars, afterTrip, ytext,
                 lastEdit, rejected, adapterVars, persistCalls, seeded,
                 objectVars, closed, inbox>>

\* TabSync.dispose() called on the TabSync of store s: the update handler,
\* if one is held, is removed from the document, and the channel is closed
\* (closing a closed channel does nothing; queued events are dropped)
TabSyncDispose(s) ==
  /\ Built(s)
  /\ HasTabSync(s)
  /\ docHandlers' = [docHandlers EXCEPT ![s] = IF updateHandler[s] THEN @ - 1 ELSE @]
  /\ updateHandler' = [updateHandler EXCEPT ![s] = FALSE]
  /\ closed' = [closed EXCEPT ![s] = TRUE]
  /\ inbox' = [inbox EXCEPT ![s] = <<>>]
  /\ tabDisposes' = Hist("tab", [tabDisposes EXCEPT ![s] = Twice(@)], tabDisposes)
  /\ UNCHANGED <<config, doc, destroyed, persistTimer, timers, initialized,
                 loading, loadedQ, disposePc, onmessage, blob, loadCalls,
                 connectCalls, early, ops, lastOrigin, lastSaved, tabApplied,
                 published, loaded, track, usage, netVars, afterTrip, ytext,
                 lastEdit, rejected, adapterVars, persistCalls, seeded,
                 objectVars>>

\* the store state a network event does not touch
storeVars == <<config, doc, destroyed, persistTimer, timers, initialized,
               loading, loadedQ, disposePc, updateHandler, docHandlers,
               onmessage, closed, inbox, blob, loadCalls, connectCalls, early,
               ops, lastOrigin, lastSaved, tabApplied, published, loaded,
               track, usage, afterTrip, ytext, lastEdit, rejected, adapterVars, callVars, seeded, objectVars>>

\* the socket of the provider opens: it emits status "connected"
WsOpen(s) ==
  /\ HasWebsocket(s)
  /\ wsState[s] = "connecting"
  /\ wsState' = [wsState EXCEPT ![s] = "connected"]
  /\ StatusEvent(s, "connected")
  /\ UNCHANGED <<shouldConnect, statusListeners, subscribed, tripped>>
  /\ UNCHANGED storeVars

\* a connection attempt fails: the provider emits "connection-error" and
\* the socket closes
WsError(s) ==
  /\ HasWebsocket(s)
  /\ wsState[s] = "connecting"
  /\ wsState' = [wsState EXCEPT ![s] = "idle"]
  /\ ConnectionErrorEvent(s)
  /\ UNCHANGED <<statusListeners, subscribed>>
  /\ UNCHANGED <<config, destroyed, initialized, loading, loadedQ, disposePc,
                 loadCalls, connectCalls, early, ops, lastOrigin, lastSaved,
                 tabApplied, published, loaded, track, usage, afterTrip, ytext, lastEdit, rejected, adapterVars, callVars, seeded, objectVars>>

\* an open connection is lost: the provider emits status "disconnected"
WsClose(s) ==
  /\ HasWebsocket(s)
  /\ wsState[s] = "connected"
  /\ wsState' = [wsState EXCEPT ![s] = "idle"]
  /\ StatusEvent(s, "disconnected")
  /\ UNCHANGED <<shouldConnect, statusListeners, subscribed, tripped>>
  /\ UNCHANGED storeVars

\* the provider's backoff timer fires: with auto-reconnect on it opens a
\* new socket and emits status "connecting"
Reconnect(s) ==
  /\ HasWebsocket(s)
  /\ wsState[s] = "idle"
  /\ shouldConnect[s]
  /\ wsState' = [wsState EXCEPT ![s] = "connecting"]
  /\ StatusEvent(s, "connecting")
  /\ UNCHANGED <<shouldConnect, statusListeners, subscribed, tripped>>
  /\ UNCHANGED storeVars

\* OrbitStore.onStatusChange(l)
OnStatusChange(s, l) ==
  /\ Built(s)
  /\ HasWebsocket(s)
  /\ statusListeners' = [statusListeners EXCEPT ![s] = AddListener(@, l)]
  /\ subscribed' = Hist("net", [subscribed EXCEPT ![s][l] = Twice(@)], subscribed)
  /\ UNCHANGED <<websocketFailures, shouldConnect, wsState, delivered,
                 lastNet, tripped, errorsInRow>>
  /\ UNCHANGED storeVars

\* OrbitStore.offStatusChange(l)
OffStatusChange(s, l) ==
  /\ Built(s)
  /\ HasWebsocket(s)
  /\ statusListeners' = [statusListeners EXCEPT ![s] = DeleteListener(@, l)]
  /\ subscribed' = Hist("net", [subscribed EXCEPT ![s][l] = 0], subscribed)
  /\ UNCHANGED <<websocketFailures, shouldConnect, wsState, delivered,
                 lastNet, tripped, errorsInRow>>
  /\ UNCHANGED storeVars

\* ---------------------------------------------------------- specification
\* stores s1 and s2 under one storeId, sharing the storage adapter and the
\* tab bus
SameId ==
  [s \in Stores |->
     [storeId |-> "a", storage |-> TRUE, enableTabSync |-> TRUE,
      websocket |-> (s = "s1"), maxFailures |-> DefaultMaxFailures]]

\* stores s1 and s2 under storeId "a", store s3 under storeId "b", all on one
\* storage adapter
DifferentIds ==
  [s \in Stores |->
     [storeId |-> IF s = "s3" THEN "b" ELSE "a", storage |-> TRUE,
      enableTabSync |-> TRUE, websocket |-> (s = "s1"),
      maxFailures |-> DefaultMaxFailures]]

\* store s1 with storage, tab sync and a network channel whose maxFailures
\* is n; store s2 is its tab peer without storage
NetConfig(n) ==
  [s \in Stores |->
     [storeId |-> "a", storage |-> (s = "s1"), enableTabSync |-> TRUE,
      websocket |-> (s = "s1"), maxFailures |-> n]]

\* s1 is initialized by racing callers and persisted explicitly, s2 is
\* disposed, s3 is not constructed
Usage ==
  [s \in Stores |->
     [built |-> (s # "s3"), races |-> (s = "s1"), persists |-> (s = "s1"),
      disposes |-> (s = "s2"),
      edits |-> FALSE]]

\* s1 is initialized by racing callers, s2 only initialized and written,
\* s3 persisted explicitly and disposed
UsageIso ==
  [s \in Stores |->
     [built |-> TRUE, races |-> (s = "s1"), persists |-> (s = "s3"),
      disposes |-> (s = "s3"),
      edits |-> FALSE]]

\* s1 is initialized by racing callers, s2 is its peer, s3 is not constructed;
\* nobody calls persist() or dispose()
UsageNet ==
  [s \in Stores |->
     [built |-> (s # "s3"), races |-> (s = "s1"), persists |-> FALSE,
      disposes |-> FALSE,
      edits |-> FALSE]]

\* s1 and its peer s2 are each initialized by one caller, s3 is not
\* constructed; nobody calls persist() or dispose()
UsageLocal ==
  [s \in Stores |->
     [built |-> (s # "s3"), races |-> FALSE, persists |-> FALSE,
      disposes |-> FALSE,
      edits |-> FALSE]]

\* store s1 with storage and tab sync
TextConfig ==
  [s \in Stores |->
     [storeId |-> "a", storage |-> (s = "s1"), enableTabSync |-> TRUE,
      websocket |-> FALSE, maxFailures |-> DefaultMaxFailures]]

\* a useOrbitText hook edits the text of s1, which one caller initializes;
\* no other store is constructed
UsageText ==
  [s \in Stores |->
     [built |-> (s = "s1"), races |-> FALSE, persists |-> FALSE,
      disposes |-> FALSE,
      edits |-> (s = "s1")]]

\* store s1 with storage, tab sync and a network channel
LifeConfig ==
  [s \in Stores |->
     [storeId |-> "a", storage |-> (s = "s1"), enableTabSync |-> (s = "s1"),
      websocket |-> (s = "s1"), maxFailures |-> DefaultMaxFailures]]

\* s1 is initialized by one caller, persisted explicitly and disposed; no
\* other store is constructed
UsageLife ==
  [s \in Stores |->
     [built |-> (s = "s1"), races |-> FALSE, persists |-> (s = "s1"),
      disposes |-> (s = "s1"),
      edits |-> FALSE]]

\* no store is constructed: the adapter is used directly
UsageAdapter ==
  [s \in Stores |->
     [built |-> FALSE, races |-> FALSE, persists |-> FALSE,
      disposes |-> FALSE,
      edits |-> FALSE]]

\* stores of one storeId with tab sync only
TabConfig ==
  [s \in Stores |->
     [storeId |-> "a", storage |-> FALSE, enableTabSync |-> TRUE,
      websocket |-> FALSE, maxFailures |-> DefaultMaxFailures]]

\* store s1 with storage and its tab peer s2 without storage
BareConfig ==
  [s \in Stores |->
     [storeId |-> "a", storage |-> (s = "s1"), enableTabSync |-> TRUE,
      websocket |-> FALSE, maxFailures |-> DefaultMaxFailures]]

\* s1 and s2 are each initialized by one caller, persisted explicitly and
\* disposed; s3 is not constructed
UsageBare ==
  [s \in Stores |->
     [built |-> (s # "s3"), races |-> FALSE, persists |-> TRUE,
      disposes |-> TRUE,
      edits |-> FALSE]]

InitOf(cfg, use, groups) ==
  /\ config = cfg
  /\ usage = use
  /\ track = groups
  /\ doc = [s \in Stores |-> {}]
  /\ destroyed = [s \in Stores |-> FALSE]
  /\ persistTimer = [s \in Stores |-> "null"]
  /\ timers = [s \in Stores |-> 0]
  /\ initialized = [s \in Stores |-> FALSE]
  /\ loading = [s \in Stores |-> 0]
  /\ loadedQ = [s \in Stores |-> <<>>]
  /\ disposePc = [s \in Stores |-> "none"]
  /\ updateHandler = [s \in Stores |-> FALSE]
  /\ docHandlers = [s \in Stores |-> 0]
  /\ onmessage = [s \in Stores |-> FALSE]
  /\ closed = [s \in Stores |-> FALSE]
  /\ inbox = [s \in Stores |-> <<>>]
  /\ blob = [id \in StoreIds |-> NoBlob]
  /\ loadCalls = [s \in Stores |-> 0]
  /\ connectCalls = [s \in Stores |-> 0]
  /\ early = {}
  /\ ops = [s \in Stores |-> NoOps]
  /\ lastOrigin = [s \in Stores |-> "none"]
  /\ lastSaved = [s \in Stores |-> {}]
  /\ tabApplied = [s \in Stores |-> {}]
  /\ published = [s \in Stores |-> {}]
  /\ loaded = [s \in Stores |-> {}]
  /\ websocketFailures = [s \in Stores |-> 0]
  /\ shouldConnect = [s \in Stores |-> FALSE]
  /\ wsState = [s \in Stores |-> "idle"]
  /\ statusListeners = [s \in Stores |-> NoListeners]
  /\ subscribed = [s \in Stores |-> NoListeners]
  /\ delivered = [s \in Stores |-> NoDelivery]
  /\ lastNet = [s \in Stores |-> NoNet]
  /\ tripped = [s \in Stores |-> FALSE]
  /\ errorsInRow = [s \in Stores |-> 0]
  /\ afterTrip = {}
  /\ ytext = [s \in Stores |-> <<>>]
  /\ lastEdit = NoEdit
  /\ rejected = [s \in Stores |-> NoRejection]
  /\ requests = <<>>
  /\ lastOp = [id \in StoreIds |-> NoOp]
  /\ lastLoad = NoLoad
  /\ ymap = [s \in Stores |-> EmptyMap]
  /\ lastUpdate = NoUpdate
  /\ tabDisposes = [s \in Stores |-> 0]
  /\ persistCalls = [s \in Stores |-> 0]
  /\ seeded = {}

Init == InitOf(SameId, Usage, {"sync"})

InitSave == InitOf(SameId, Usage, {"save"})

InitInit == InitOf(SameId, Usage, {"init"})

InitIso == InitOf(DifferentIds, UsageIso, {})

InitNet == \E n \in 1..DefaultMaxFailures : InitOf(NetConfig(n), UsageNet, {"net", "trip"})

InitLocal == \E n \in 1..DefaultMaxFailures : InitOf(NetConfig(n), UsageLocal, {"trip", "sync"})

Next ==
  \/ \E s \in Stores : LocalWrite(s)
  \/ \E s \in Stores : InitCall(s)
  \/ \E s \in Stores : LoadRead(s)
  \/ \E s \in Stores : InitResume(s)
  \/ \E s \in Stores : Deliver(s)
  \/ \E s \in Stores : TimerFire(s)
  \/ \E s \in Stores : PersistCall(s)
  \/ \E s \in Stores : DisposeCall(s)
  \/ \E s \in Stores : DisposeTeardown(s)
  \/ \E s \in Stores : DisposeFinish(s)

InitText == InitOf(TextConfig, UsageText, {"text", "sync"})

\* a text hook on an initialized, persisted and tab-synced store
NextText ==
  \/ \E s \in Stores : \E newText \in Texts : SetText(s, newText)
  \/ \E s \in Stores : InitCall(s)
  \/ \E s \in Stores : LoadRead(s)
  \/ \E s \in Stores : InitResume(s)
  \/ \E s \in Stores : TimerFire(s)

\* initialization, the events of the network channel and the status
\* listeners
NextNet ==
  \/ \E s \in Stores : InitCall(s)
  \/ \E s \in Stores : LoadRead(s)
  \/ \E s \in Stores : InitResume(s)
  \/ \E s \in Stores : WsOpen(s)
  \/ \E s \in Stores : WsError(s)
  \/ \E s \in Stores : WsClose(s)
  \/ \E s \in Stores : Reconnect(s)
  \/ \E s \in Stores : \E l \in Listeners : OnStatusChange(s, l)
  \/ \E s \in Stores : \E l \in Listeners : OffStatusChange(s, l)

\* local operation next to the events of the network channel
NextLocal ==
  \/ \E s \in Stores : LocalWrite(s)
  \/ \E s \in Stores : InitCall(s)
  \/ \E s \in Stores : LoadRead(s)
  \/ \E s \in Stores : InitResume(s)
  \/ \E s \in Stores : Deliver(s)
  \/ \E s \in Stores : TimerFire(s)
  \/ \E s \in Stores : WsOpen(s)
  \/ \E s \in Stores : WsError(s)
  \/ \E s \in Stores : WsClose(s)
  \/ \E s \in Stores : Reconnect(s)

InitLife == InitOf(LifeConfig, UsageLife, {"life"})

\* the life of one store on a storage adapter whose load and save may reject
NextLife ==
  \/ \E s \in Stores : LocalWrite(s)
  \/ \E s \in Stores : InitCall(s)
  \/ \E s \in Stores : LoadRead(s)
  \/ \E s \in Stores : LoadRejects(s)
  \/ \E s \in Stores : InitResume(s)
  \/ \E s \in Stores : TimerFire(s)
  \/ \E s \in Stores : TimerFireRejects(s)
  \/ \E s \in Stores : PersistCall(s)
  \/ \E s \in Stores : PersistRejects(s)
  \/ \E s \in Stores : DisposeCall(s)
  \/ \E s \in Stores : DisposeRejects(s)
  \/ \E s \in Stores : DisposeTeardown(s)
  \/ \E s \in Stores : DisposeFinish(s)

InitAdapter == InitOf(DifferentIds, UsageAdapter, {"adapter"})

\* callers of one IndexedDBAdapter with requests in flight
NextAdapter ==
  \/ \E r \in Requests : AdapterCall(r)
  \/ AdapterSaveDone
  \/ AdapterDeleteDone
  \/ AdapterLoadDone

InitObject == InitOf(TextConfig, UsageText, {"object"})

\* an object hook on an initialized, persisted and tab-synced store
NextObject ==
  \/ \E s \in Stores : \E updates \in Partials : UpdateObject(s, updates)
  \/ \E s \in Stores : InitCall(s)
  \/ \E s \in Stores : LoadRead(s)
  \/ \E s \in Stores : InitResume(s)
  \/ \E s \in Stores : TimerFire(s)

InitTab == InitOf(TabConfig, UsageLocal, {"tab", "sync"})

\* the TabSync instances of two documents, activated and deactivated in
\* any order and any number of times
NextTab ==
  \/ \E s \in Stores : LocalWrite(s)
  \/ \E s \in Stores : TabInit(s)
  \/ \E s \in Stores : TabSyncDispose(s)
  \/ \E s \in Stores : Deliver(s)

InitBare == InitOf(BareConfig, UsageBare, {"save", "bare"})

InitSeed == InitOf(SameId, UsageLocal, {"sync"})

\* components mount the text hook under stores that are initialized, write
\* and exchange deltas in any order
NextSeed ==
  \/ \E s \in Stores : Seed(s)
  \/ \E s \in Stores : LocalWrite(s)
  \/ \E s \in Stores : InitCall(s)
  \/ \E s \in Stores : LoadRead(s)
  \/ \E s \in Stores : InitResume(s)
  \/ \E s \in Stores : Deliver(s)
  \/ \E s \in Stores : TimerFire(s)

InitQuiet == InitOf(SameId, Usage, {})

\* writes, initialization, timers and the dispatch of bus messages
NextQuiet ==
  \/ \E s \in Stores : LocalWrite(s)
  \/ \E s \in Stores : InitCall(s)
  \/ \E s \in Stores : LoadRead(s)
  \/ \E s \in Stores : InitResume(s)
  \/ \E s \in Stores : Deliver(s)
  \/ \E s \in Stores : TimerFire(s)

\* two stores of one storeId, recording the tab-sync history
Spec == Init /\ [][Next]_vars

\* two stores of one storeId, recording the persistence history
SpecSave == InitSave /\ [][Next]_vars

\* two stores of one storeId, recording the initialization history
SpecInit == InitInit /\ [][Next]_vars

\* stores of two storeIds on one storage adapter
SpecIso == InitIso /\ [][Next]_vars

\* a store with a network channel and its tab peer, recording the network
\* history
SpecNet == InitNet /\ [][NextNet]_vars

\* the text hook of one store, recording its last call
SpecText == InitText /\ [][NextText]_vars

\* a store with a network channel and its tab peer, recording the writes
\* made after the breaker tripped
SpecLocal == InitLocal /\ [][NextLocal]_vars

\* one store from construction to dispose, recording the rejected calls
SpecLife == InitLife /\ [][NextLife]_vars

\* one storage adapter used by concurrent callers, recording what completed
SpecAdapter == InitAdapter /\ [][NextAdapter]_vars

\* the object hook of one store, recording its last call
SpecObject == InitObject /\ [][NextObject]_vars

\* two TabSync instances on one channel, recording the dispose() calls
SpecTab == InitTab /\ [][NextTab]_vars

\* a store with storage and a store without, recording the saves and the
\* persist() calls
SpecBare == InitBare /\ [][Next]_vars

\* two stores of one storeId whose event loops dispatch every queued
\* message event
SpecQuiet ==
  InitQuiet /\ [][NextQuiet]_vars /\ \A s \in Stores : WF_vars(Deliver(s))

\* two stores of one storeId, each initialized once, with the text hook
\* mounted under them
SpecSeed == InitSeed /\ [][NextSeed]_vars

\* ----------------------------------------------------------------- claims
\* the messages queued for store t
Queued(t) == {inbox[t][i] : i \in 1..Len(inbox[t])}

\* no write of the channel of s was made while a store of it was not connected
AllWritesConnected(s) == \A w \in early : w[1] \notin Group(s)

TabSyncDelivers ==
  \A s \in Stores : \A t \in Group(s) \ {s} :
     (Connected(s) /\ Connected(t) /\ AllWritesConnected(s))
     => \A w \in Own(s) :
          \/ w \in doc[t]
          \/ \E m \in Queued(t) : m.from = s /\ w \in m.update

\* C2 witness: each of two stores holds, through a bus message, a write
\* the other made after both were initialized
TabSyncDeliversWitness ==
  \E s \in Stores : \E t \in Group(s) \ {s} :
     /\ Connected(s) /\ Connected(t)
     /\ AllWritesConnected(s)
     /\ Own(s) \cap tabApplied[t] # {}
     /\ Own(t) \cap tabApplied[s] # {}

\* C3: a store never publishes a write it integrated from a bus message,
\* and no message queued for a store was published by that store
NoSelfEcho ==
  \A s \in Stores :
     /\ published[s] \cap tabApplied[s] = {}
     /\ \A m \in Queued(s) : m.from # s

\* C3 witness: a store that publishes its own writes has integrated a
\* write from the bus and not published it
NoSelfEchoWitness ==
  \E s \in Stores :
     /\ tabApplied[s] # {}
     /\ published[s] # {}
     /\ Connected(s)

\* the bus messages that carry a storeId other than the one of store s
ForeignMessages(s) ==
  {[type |-> "update", storeId |-> id, update |-> {w}, from |-> t] :
     id \in StoreIds \ {config[s].storeId}, w \in Writes, t \in Stores \ {s}}

\* the document of store s after its message handler has run on m
OnMessage(s, m) == IF AcceptMessage(s, m) THEN doc[s] \cup m.update ELSE doc[s]

\* C4: a document and a persisted blob contain only writes made under
\* their own storeId, and a message of another storeId changes no document
Isolation ==
  /\ \A s \in Stores : doc[s] \subseteq WritesOf(config[s].storeId)
  /\ \A s \in Stores : Built(s) => blob[StorageKey(s)].structs \subseteq WritesOf(config[s].storeId)
  /\ \A s \in Stores : \A m \in ForeignMessages(s) : OnMessage(s, m) = doc[s]

\* C4 witness: stores of two storeIds are initialized on the shared adapter,
\* both have written and both blobs are saved
IsolationWitness ==
  \E s, t \in Stores :
     /\ config[s].storeId # config[t].storeId
     /\ initialized[s] /\ initialized[t]
     /\ Own(s) # {} /\ Own(t) # {}
     /\ blob[StorageKey(s)].structs # {} /\ blob[StorageKey(t)].structs # {}

\* C5: after a document change and until persist() or dispose() is called,
\* either the one debounce timer is pending and nothing was saved since,
\* or it has fired and saved exactly once, the whole document
DebounceCoalescing ==
  \A s \in Stores :
     (HasStorage(s) /\ ~destroyed[s] /\ lastOrigin[s] # "none" /\ ~ops[s].explicit)
     => \/ timers[s] = 1 /\ ops[s].n = "none"
        \/ timers[s] = 0 /\ ops[s].n = "one" /\ lastSaved[s] = doc[s]

\* C5 witness: a burst of several changes has ended in one save by the timer
DebounceCoalescingWitness ==
  \E s \in Stores :
     /\ ops[s].burst = "many" /\ ~ops[s].explicit
     /\ timers[s] = 0 /\ ops[s].n = "one" /\ ops[s].first = "timer"
     /\ Cardinality(lastSaved[s]) > 1 /\ lastSaved[s] = doc[s]

\* C6: when dispose() is the first call to save after a document change,
\* it is the only save, it writes the whole document and no timer is left
FlushOnDispose ==
  \A s \in Stores :
     (lastOrigin[s] # "none" /\ ops[s].first = "dispose")
     => /\ ops[s].n = "one"
        /\ timers[s] = 0
        /\ lastSaved[s] = doc[s]

\* C6 witness: a store was disposed right after a local write; its one save
\* holds the write
FlushOnDisposeWitness ==
  \E s \in Stores :
     /\ disposePc[s] = "done"
     /\ lastOrigin[s] = "local" /\ ops[s].first = "dispose" /\ ops[s].n = "one"
     /\ Own(s) # {} /\ lastSaved[s] = doc[s]
     /\ blob[StorageKey(s)].structs = doc[s]

\* C7 (as claimed): when persist() is the first call to save after a
\* document change, it is the only save and no timer is left pending
PersistCancelsTimer ==
  \A s \in Stores :
     (lastOrigin[s] # "none" /\ ops[s].first = "persist")
     => ops[s].n = "one" /\ timers[s] = 0

\* C8 (as claimed): a store starts at most one storage load, registers at
\* most one tab-sync update handler and calls connect() at most once
InitAtMostOnce ==
  \A s \in Stores :
     /\ loadCalls[s] <= 1
     /\ docHandlers[s] <= 1
     /\ connectCalls[s] <= 1

\* C9 (as claimed): while the blob applied by init() is the last change of
\* the document, no timer is pending and nothing has been saved
LoadDoesNotPersist ==
  \A s \in Stores :
     (lastOrigin[s] = "storage" /\ ~destroyed[s])
     => timers[s] = 0 /\ ops[s].n = "none"

\* C10: once the init() calls of a store have resolved, its document holds
\* every write of the blob that was persisted under its storeId when
\* storage.load read it
RoundTrip ==
  \A s \in Stores :
     (initialized[s] /\ loading[s] = 0 /\ loadedQ[s] = <<>>) => loaded[s] \subseteq doc[s]

\* C10 witness: a store holds a write of another store that it got from the
\* blob it loaded in init()
RoundTripWitness ==
  \E s, t \in Stores :
     /\ s # t /\ initialized[t] /\ loading[t] = 0 /\ loadedQ[t] = <<>>
     /\ Own(s) \cap loaded[t] # {}
     /\ loaded[t] \subseteq doc[t]

\* the last network event of store s was a connection-error
ErrorWasLast(s) == HasWebsocket(s) /\ lastNet[s].kind = "error"

\* every callback registered at the last network event of s was invoked
\* exactly once, with status st, and no other callback was invoked
NotifiedOnce(s, st) ==
  /\ delivered[s].status = st
  /\ \A l \in Listeners :
        delivered[s].calls[l] = IF delivered[s].to[l] > 0 THEN 1 ELSE 0

StaysDisconnectedAfterTrip ==
  \A s \in Stores : tripped[s] => wsState[s] = "idle" /\ ~shouldConnect[s]

\* C13: the failure counter is the number of connection-errors since
\* construction or the last status "connected", it is 0 right after a
\* status "connected", and the breaker trips only with maxFailures or more
\* errors in a row
ConnectResetsCounter ==
  \A s \in Stores :
     /\ websocketFailures[s] = errorsInRow[s]
     /\ lastNet[s].kind = "connected" => websocketFailures[s] = 0
     /\ (ErrorWasLast(s) /\ delivered[s].status = "disconnected")
           => errorsInRow[s] >= MaxWebsocketFailures(s)

\* C13 witness: a status "connected" has reset a counter that was not 0
ConnectResetsCounterWitness ==
  \E s \in Stores :
     /\ lastNet[s].kind = "connected"
     /\ lastNet[s].before > 0
     /\ websocketFailures[s] = 0 /\ shouldConnect[s]

\* what a store needs to work locally
LocalState == <<doc, persistTimer, timers, updateHandler, docHandlers,
                onmessage, closed, inbox, blob>>

\* every write made after the trip was published on the tab bus and is
\* saved or waits for the debounce timer
AfterTripLocal ==
  \A w \in afterTrip :
     /\ w \in published[w[1]]
     /\ HasStorage(w[1]) => timers[w[1]] > 0 \/ w \in blob[StorageKey(w[1])].structs

\* C14: a connection-error, tripping or not, leaves the document, the
\* persistence timer, the tab-sync subscription, the queued bus messages
\* and the blobs unchanged, and every write made after the trip is
\* published on the bus and saved after the debounce
NetworkFailureKeepsLocal ==
  /\ []AfterTripLocal
  /\ [][(\E s \in Stores : websocketFailures'[s] > websocketFailures[s])
          => UNCHANGED LocalState]_vars

\* C14 witness: a write made after the trip has been saved by the timer,
\* published, and integrated by the tab peer
NetworkFailureKeepsLocalWitness ==
  \E w \in afterTrip : \E t \in Stores \ {w[1]} :
     /\ tripped[w[1]]
     /\ timers[w[1]] = 0 /\ w \in blob[StorageKey(w[1])].structs
     /\ w \in published[w[1]]
     /\ w \in doc[t]

\* C19: the listener collection holds a callback once if its last call was
\* onStatusChange (however often it was registered) and not at all
\* otherwise, and a status event invokes exactly the held callbacks, once
StatusListenerSet ==
  \A s \in Stores : \A l \in Listeners :
     /\ statusListeners[s][l] = IF subscribed[s][l] > 0 THEN 1 ELSE 0
     /\ delivered[s].status # "none" => NotifiedOnce(s, delivered[s].status)

\* C19 witness: a status event reached a callback registered twice once and
\* did not reach a callback that was not registered
StatusListenerSetWitness ==
  \E s \in Stores : \E l, k \in Listeners :
     /\ delivered[s].status # "none"
     /\ delivered[s].to[l] = 2 /\ delivered[s].calls[l] = 1
     /\ delivered[s].to[k] = 0 /\ delivered[s].calls[k] = 0

\* C20 (as claimed): after a connect success and after a connection-error
\* every registered status listener has been invoked
NotifiedOnEveryNetworkEvent ==
  \A s \in Stores :
     lastNet[s].kind \in {"connected", "error"}
        => \A l \in Listeners : delivered[s].to[l] > 0 => delivered[s].calls[l] >= 1

\* the last setOrbitText call replaced oldText by newText
Edited(oldText, newText) ==
  lastEdit.called /\ lastEdit.old = oldText /\ lastEdit.new = newText

\* C15 (as claimed): for "Hello World" -> "Hello Orbit World" the prefix
\* is 5, the suffix 6, nothing is deleted and " Orbit" is inserted at 5
HelloDiffAsClaimed ==
  Edited(HelloWorld, HelloOrbitWorld) =>
     /\ lastEdit.diff.commonPrefix = 5
     /\ lastEdit.diff.commonSuffix = 6
     /\ ~lastEdit.diff.deletes
     /\ lastEdit.diff.insertText = <<" ", "O", "r", "b", "i", "t">>

\* C15: for "Hello World" -> "Hello Orbit World" the prefix is 6 ("Hello "),
\* the suffix 5 ("World"), nothing is deleted and "Orbit " is inserted at
\* position 6
HelloDiff ==
  Edited(HelloWorld, HelloOrbitWorld) =>
     /\ lastEdit.diff.commonPrefix = 6
     /\ lastEdit.diff.commonSuffix = 5
     /\ ~lastEdit.diff.deletes /\ lastEdit.diff.deleteLength = 0
     /\ lastEdit.diff.inserts
     /\ lastEdit.diff.insertText = <<"O", "r", "b", "i", "t", " ">>

\* C15 witness: the text "Hello World" was set to "Hello Orbit World"
HelloDiffWitness ==
  /\ Edited(HelloWorld, HelloOrbitWorld)
  /\ lastEdit.transacted
  /\ \E s \in Stores : usage[s].edits /\ ytext[s] = HelloOrbitWorld

\* C16: after setOrbitText(new) the text of the hook's store is new
DiffResult ==
  lastEdit.called => \A s \in Stores : usage[s].edits => ytext[s] = lastEdit.new

\* C16 witness: an edit between a kept prefix and a kept suffix, with a
\* delete and an insert, produced the new text
DiffResultWitness ==
  /\ lastEdit.called
  /\ lastEdit.old # lastEdit.new
  /\ lastEdit.diff.deletes /\ lastEdit.diff.inserts
  /\ lastEdit.diff.commonPrefix > 0 /\ lastEdit.diff.commonSuffix > 0
  /\ \E s \in Stores : usage[s].edits /\ ytext[s] = lastEdit.new

Min(a, b) == IF a < b THEN a ELSE b
Largest(S) == CHOOSE x \in S : \A y \in S : y <= x

\* the length of the longest common prefix of two texts
LongestCommonPrefix(x, y) ==
  Largest({k \in 0..Min(Len(x), Len(y)) : SubSeq(x, 1, k) = SubSeq(y, 1, k)})

\* the length of the longest common suffix that leaves the first p
\* characters of both texts alone
LongestCommonSuffix(x, y, pre) ==
  Largest({k \in 0..(Min(Len(x), Len(y)) - pre) :
             SubSeq(x, Len(x) - k + 1, Len(x)) = SubSeq(y, Len(y) - k + 1, Len(y))})

\* the single contiguous replacements <<position, deleted, inserted>> that
\* turn x into y
Replacements(x, y) ==
  {r \in (0..Len(x)) \X (0..Len(x)) \X (0..Len(y)) :
     /\ r[1] + r[2] <= Len(x)
     /\ Len(x) - r[2] + r[3] = Len(y)
     /\ SubSeq(x, 1, r[1]) = SubSeq(y, 1, r[1])
     /\ SubSeq(x, r[1] + r[2] + 1, Len(x)) = SubSeq(y, r[1] + r[3] + 1, Len(y))}

\* C17: for old # new the prefix is the longest common prefix, the suffix
\* the longest common suffix that does not overlap it, and no single
\* contiguous replacement deletes or inserts fewer characters
DiffMinimal ==
  (lastEdit.called /\ lastEdit.old # lastEdit.new) =>
     LET d == lastEdit.diff
     IN /\ d.commonPrefix = LongestCommonPrefix(lastEdit.old, lastEdit.new)
        /\ d.commonSuffix = LongestCommonSuffix(lastEdit.old, lastEdit.new, d.commonPrefix)
        /\ \A r \in Replacements(lastEdit.old, lastEdit.new) :
              r[2] >= d.deleteLength /\ r[3] >= Len(d.insertText)

\* C17 witness: an edit that several replacements could make, made with a
\* suffix kept
DiffMinimalWitness ==
  /\ lastEdit.called
  /\ lastEdit.old # lastEdit.new
  /\ Cardinality(Replacements(lastEdit.old, lastEdit.new)) > 2
  /\ lastEdit.diff.commonSuffix > 0
  /\ <<lastEdit.diff.commonPrefix, lastEdit.diff.deleteLength,
       Len(lastEdit.diff.insertText)>> \in Replacements(lastEdit.old, lastEdit.new)

\* C18: setOrbitText with the current text opens no transaction and emits
\* no update event: the document, the text, the persistence timer, the
\* set of published writes and the queued bus messages stay as they are
IdenticalTextNoOp ==
  /\ []((lastEdit.called /\ lastEdit.old = lastEdit.new)
          => ~lastEdit.transacted /\ ~lastEdit.event)
  /\ [][(lastEdit'.called /\ lastEdit'.old = lastEdit'.new)
          => UNCHANGED <<doc, ytext, persistTimer, timers, inbox, published,
                         blob>>]_lastEdit

\* C18 witness: the current, non-empty text was set again while the
\* debounce timer of the earlier edit was pending
IdenticalTextNoOpWitness ==
  /\ lastEdit.called
  /\ lastEdit.old = lastEdit.new /\ lastEdit.old # <<>>
  /\ ~lastEdit.transacted
  /\ \E s \in Stores : usage[s].edits /\ timers[s] = 1 /\ ytext[s] = lastEdit.new

\* C21: the status useOrbitStatus reports is one of "connecting",
\* "connected" and "disconnected"; it is "disconnected" for a store without
\* a network channel, and otherwise "connected" exactly when the channel is
\* connected, "connecting" exactly when it is not connected but connecting,
\* and "disconnected" otherwise.
ReportedStatus ==
  \A s \in Stores : Built(s) =>
    /\ GetSnapshot(s) \in {"connecting", "connected", "disconnected"}
    /\ ~HasWebsocket(s) => GetSnapshot(s) = "disconnected"
    /\ HasWebsocket(s) =>
         /\ GetSnapshot(s) = "connected" <=> wsState[s] = "connected"
         /\ GetSnapshot(s) = "connecting" <=> wsState[s] = "connecting"
         /\ GetSnapshot(s) = "disconnected" <=> wsState[s] = "idle"

\* a store reported as connecting after an error, next to a peer without a
\* network channel
ReportedStatusWitness ==
  \E s, t \in Stores :
    /\ Built(s) /\ HasWebsocket(s) /\ GetSnapshot(s) = "connecting"
    /\ websocketFailures[s] > 0
    /\ Built(t) /\ ~HasWebsocket(t) /\ GetSnapshot(t) = "disconnected"

\* a dispose() call of store s moves from position `from` to position `to`
DisposeStep(s, from, to) == disposePc[s] = from /\ disposePc'[s] = to

\* C22: dispose() of a store with storage cancels the pending debounce timer
\* and issues one final save of the live document; only after that save has
\* completed it closes tab sync, disconnects the network channel and
\* destroys the document, and it disposes the storage adapter last, so the
\* final save never meets a destroyed document or a disposed adapter.
DisposeOrder ==
  /\ [](\A s \in Stores : (HasStorage(s) /\ disposePc[s] = "awaitPersist")
           => ~destroyed[s] /\ ~closed[s])
  /\ [](\A s \in Stores : disposePc[s] \in {"awaitStorageDispose", "done"}
           => destroyed[s] /\ closed[s])
  /\ [][\A s \in Stores : HasStorage(s) =>
          /\ DisposeStep(s, "none", "awaitPersist") =>
               /\ timers'[s] = 0 /\ persistTimer'[s] = "null"
               /\ blob'[StorageKey(s)] = EncodeStateAsUpdate(doc[s])
               /\ ~destroyed[s] /\ ~destroyed'[s] /\ ~closed'[s]
               /\ wsState'[s] = wsState[s] /\ docHandlers'[s] = docHandlers[s]
          /\ DisposeStep(s, "awaitPersist", "awaitStorageDispose") =>
               /\ closed'[s] /\ docHandlers'[s] = 0
               /\ wsState'[s] = "idle" /\ ~shouldConnect'[s]
               /\ destroyed'[s]
               /\ blob' = blob
          /\ DisposeStep(s, "awaitStorageDispose", "done") => blob' = blob
          /\ (destroyed'[s] /\ ~destroyed[s]) => disposePc[s] = "awaitPersist"
          /\ (closed'[s] /\ ~closed[s]) => disposePc[s] = "awaitPersist"
     ]_vars

\* a store with storage, tab sync and a network channel was disposed after
\* a write: its blob holds its document
DisposeOrderWitness ==
  \E s \in Stores :
    /\ HasStorage(s) /\ HasTabSync(s) /\ HasWebsocket(s)
    /\ disposePc[s] = "done"
    /\ wsState[s] = "idle" /\ ~shouldConnect[s] /\ destroyed[s] /\ closed[s]
    /\ doc[s] # {} /\ blob[StorageKey(s)] = EncodeStateAsUpdate(doc[s])
    /\ timers[s] = 0

\* the call `op` of store s rejects in this step
RejectedNow(s, op) == rejected'[s] # rejected[s] /\ rejected'[s].op = op

\* C23: when storage.save rejects, an explicit persist() rejects to its
\* caller and neither the document nor the stored blob changes; after a
\* failed debounced save no timer is pending, so no save is retried until
\* the document changes again or persist() or dispose() is called.
SaveFailure ==
  /\ [](\A s \in Stores :
          (rejected[s].op = "timer" /\ doc[s] = rejected[s].doc) => timers[s] = 0)
  /\ [][\A s \in Stores :
          (RejectedNow(s, "persist") \/ RejectedNow(s, "timer"))
             => doc' = doc /\ blob' = blob /\ destroyed' = destroyed
     ]_vars

\* the debounced save of a written store failed: the blob lacks the write
\* and nothing is scheduled
SaveFailureWitness ==
  \E s \in Stores :
    /\ rejected[s].op = "timer" /\ doc[s] = rejected[s].doc /\ doc[s] # {}
    /\ blob[StorageKey(s)] # EncodeStateAsUpdate(doc[s])
    /\ timers[s] = 0 /\ disposePc[s] = "none"

\* C24: when storage.load rejects during init(), init() rejects and the
\* document, the stored blob and the debounce timer are as they were before
\* the call.
LoadFailure ==
  [][\A s \in Stores :
       RejectedNow(s, "init")
          => /\ doc' = doc /\ blob' = blob
             /\ timers' = timers /\ persistTimer' = persistTimer
             /\ initialized' = initialized
    ]_vars

\* init() of a store with a write and a pending timer rejected
LoadFailureWitness ==
  \E s \in Stores :
    /\ rejected[s].op = "init" /\ doc[s] = rejected[s].doc /\ doc[s] # {}
    /\ timers[s] = 1 /\ ~initialized[s] /\ loading[s] = 0

\* C27: every save replaces the stored blob by a state that contains every
\* write of the blob it replaces, whatever the interleaving of construction,
\* init, local writes, persist(), timer expiry and dispose() of the stores
\* sharing the adapter.
SaveKeepsPersisted ==
  [][\A id \in StoreIds : blob[id].structs \subseteq blob'[id].structs]_vars

\* C28: once dispose() has resolved no debounce timer of the store is
\* pending and the store never saves again, also when the document changed
\* while dispose() awaited its final save.
NoSaveAfterDispose ==
  /\ [](\A s \in Stores : disposePc[s] = "done" => timers[s] = 0)
  /\ [][\A s \in Stores :
          (disposePc[s] = "done" /\ \A t \in Stores \ {s} : ~Built(t))
             => blob' = blob]_vars

\* C29: when dispose() is called while init() awaits the storage load, the
\* resumed init() does not apply the blob to the destroyed document, does
\* not activate tab sync and does not connect the network channel.
NoInitAfterDispose ==
  /\ [](\A s \in Stores : destroyed[s] =>
          /\ docHandlers[s] = 0 /\ ~updateHandler[s]
          /\ wsState[s] = "idle" /\ ~shouldConnect[s])
  /\ [][\A s \in Stores : destroyed[s] => doc'[s] = doc[s]]_vars

\* C30: when the final save inside dispose() rejects, dispose() has still
\* closed tab sync, disconnected the network channel and destroyed the
\* document by the time it rejects.
TeardownAfterFailedSave ==
  \A s \in Stores : disposePc[s] = "rejected" =>
    /\ destroyed[s]
    /\ HasTabSync(s) => closed[s] /\ docHandlers[s] = 0
    /\ HasWebsocket(s) => wsState[s] = "idle" /\ ~shouldConnect[s]

\* what load of a key resolves to after the completed operation `h`: the
\* saved state, or null (no blob) after a delete or without any save
Register(h) == IF h.op = "save" THEN h.state ELSE NoBlob

\* the oldest request, of kind `op`, completes in this step
Completes(op) ==
  requests # <<>> /\ Head(requests).op = op /\ requests' = Tail(requests)

\* C25: the storage adapter is a register per id: load resolves to the
\* state of the most recent completed save of the id, or to null when
\* nothing was saved for it or it was deleted since; a save replaces the
\* previous state as a whole; a delete of an id without state resolves; and
\* no operation on one id, concurrent saves included, changes what load
\* returns for another id.
AdapterRegister ==
  /\ [](\A id \in StoreIds : AdapterGet(blob, id) = Register(lastOp[id]))
  /\ [][/\ Completes("load") =>
            /\ lastLoad'.called /\ lastLoad'.id = Head(requests).id
            /\ lastLoad'.result = Register(lastOp[Head(requests).id])
            /\ blob' = blob
        /\ Completes("save") =>
            AdapterGet(blob', Head(requests).id) = Head(requests).state
        /\ Completes("delete") =>
            AdapterGet(blob', Head(requests).id) = NoBlob
        /\ \A id \in StoreIds :
             (requests # <<>> /\ Head(requests).id # id)
                => AdapterGet(blob', id) = AdapterGet(blob, id)
     ]_vars

\* a load resolved to the second state saved under its id while the other
\* id, saved once, had been deleted, with two more requests in flight
AdapterRegisterWitness ==
  /\ lastLoad.called /\ lastLoad.result.present
  /\ lastLoad.result = EncodeStateAsUpdate({<<"s1", 2>>})
  /\ lastOp[lastLoad.id].op = "save"
  /\ \E id \in StoreIds \ {lastLoad.id} :
        lastOp[id].op = "delete" /\ ~blob[id].present
  /\ Len(requests) = Cardinality(Callers)
  /\ Head(requests).op = "delete" /\ ~blob[Head(requests).id].present

\* C26: updateObject(partial) sets exactly the properties that are present
\* in partial with a value other than undefined, each to the value given,
\* and leaves every other property of the object as it was.
PartialUpdate ==
  lastUpdate.called =>
    \A k \in Props :
      ymap[lastUpdate.store][k] =
        IF lastUpdate.updates[k] \in Values THEN lastUpdate.updates[k]
        ELSE lastUpdate.before[k]

\* an object with one property got a second one by an update that gave
\* the first as undefined: the first kept its value
PartialUpdateWitness ==
  /\ lastUpdate.called
  /\ \E k, j \in Props :
       /\ k # j
       /\ lastUpdate.before[k] \in Values /\ lastUpdate.before[j] = "absent"
       /\ lastUpdate.updates[k] = "undefined" /\ lastUpdate.updates[j] \in Values
       /\ ymap[lastUpdate.store][k] = lastUpdate.before[k]
       /\ ymap[lastUpdate.store][j] = lastUpdate.updates[j]

\* the message TabSync of store s packages for the writes `delta`
BusMessage(s, delta) ==
  [type |-> "update", storeId |-> config[s].storeId, update |-> delta, from |-> s]

\* C31: once tab sync of a store is active, each change of its document
\* whose origin is not the TabSync instance puts exactly one message with
\* the delta and the storeId on the bus, and a change whose origin is the
\* TabSync instance puts none.
TabPublishRule ==
  [][\A s \in Stores :
       (doc'[s] # doc[s] /\ Connected(s)) =>
          \A t \in Group(s) \ {s} :
             ~closed[t] =>
                inbox'[t] = IF lastOrigin'[s] = "tabSync" THEN inbox[t]
                            ELSE Append(inbox[t], BusMessage(s, doc'[s] \ doc[s]))
    ]_vars

\* an init() of store s resumes after its storage load in this step
InitResumes(s) == loadedQ[s] # <<>> /\ loadedQ'[s] = Tail(loadedQ[s])

\* C32: init() applies the loaded blob before it activates tab sync and
\* before it connects the network channel, so no init() publishes the state
\* loaded from storage on the tab bus.
LoadedStateNotPublished ==
  [][\A s \in Stores :
       InitResumes(s) =>
          /\ inbox' = inbox
          /\ published' = published
    ]_vars

\* setOrbitText of store s replaces a text by a different one in this step
Replaces(s) ==
  /\ usage[s].edits
  /\ lastEdit' # lastEdit
  /\ lastEdit'.called /\ lastEdit'.old # lastEdit'.new
  /\ lastEdit'.old = ytext[s]

\* C33: a setText call with a new text performs at most one delete and at
\* most one insert, the delete first, in a single transaction: the document
\* changes once, so the persistence timer is restarted once and one delta
\* is published, and the text goes from the old to the new value without
\* an intermediate state.
AtomicReplacement ==
  [][\A s \in Stores :
       Replaces(s) =>
          /\ lastEdit'.transacted /\ lastEdit'.event
          /\ Cardinality(doc'[s] \ doc[s]) = 1
          /\ ytext'[s] = lastEdit'.new
          /\ ytext'[s] = ApplyDiff(ytext[s], lastEdit'.diff)
          /\ timers'[s] = 1
          /\ Cardinality(published'[s] \ published[s]) = (IF Connected(s) THEN 1 ELSE 0)
    ]_vars

\* a replacement with both a delete and an insert was made on a store whose
\* tab sync is active and whose timer was pending
AtomicReplacementWitness ==
  /\ lastEdit.called /\ lastEdit.old # lastEdit.new
  /\ lastEdit.diff.deletes /\ lastEdit.diff.inserts
  /\ lastEdit.transacted /\ lastEdit.event
  /\ \E s \in Stores :
       /\ usage[s].edits /\ ytext[s] = lastEdit.new
       /\ Connected(s) /\ Cardinality(published[s]) = 1
       /\ Cardinality(doc[s]) = 2 /\ timers[s] = 1

\* C34: for all texts old and new the common prefix p and the common suffix
\* s of the diff satisfy p >= 0, s >= 0 and p + s <= min(|old|, |new|), so
\* the delete length |old| - p - s and the insert length |new| - p - s are
\* not negative and the deleted range lies inside the old text; an empty
\* old text gives a pure insert of all of new and an empty new text a pure
\* delete of all of old.
DiffClamped ==
  lastEdit.called =>
    LET d == lastEdit.diff
        oldLen == Len(lastEdit.old)
        newLen == Len(lastEdit.new)
    IN /\ d.commonPrefix >= 0 /\ d.commonSuffix >= 0
       /\ d.commonPrefix + d.commonSuffix <= Min(oldLen, newLen)
       /\ d.deleteLength = oldLen - d.commonPrefix - d.commonSuffix
       /\ d.deleteLength >= 0
       /\ Len(d.insertText) = newLen - d.commonPrefix - d.commonSuffix
       /\ d.commonPrefix + d.deleteLength <= oldLen
       /\ (oldLen = 0 /\ newLen > 0) =>
            ~d.deletes /\ d.inserts /\ d.commonPrefix = 0
            /\ d.insertText = lastEdit.new
       /\ (newLen = 0 /\ oldLen > 0) =>
            d.deletes /\ ~d.inserts /\ d.commonPrefix = 0
            /\ d.deleteLength = oldLen

\* a text was shortened to one of its prefixes that also ends like it: the
\* suffix scan stopped at the common prefix
DiffClampedWitness ==
  /\ lastEdit.called
  /\ Len(lastEdit.new) > 0 /\ Len(lastEdit.old) > Len(lastEdit.new)
  /\ lastEdit.diff.commonPrefix = Len(lastEdit.new)
  /\ lastEdit.old[Len(lastEdit.old)] = lastEdit.new[Len(lastEdit.new)]
  /\ lastEdit.diff.commonSuffix = 0
  /\ lastEdit.diff.deleteLength = Len(lastEdit.old) - Len(lastEdit.new)
  /\ \E s \in Stores : usage[s].edits /\ ytext[s] = lastEdit.new

\* TabSync.dispose() of store s is called in this step
TabDisposes(s) == tabDisposes'[s] # tabDisposes[s]

\* the messages from store s in a queue
FromStore(q, s) == SelectSeq(q, LAMBDA m : m.from = s)

\* C35: TabSync.dispose() is safe in every state: called before init() it
\* only closes the channel, called again it changes nothing more, and after
\* dispose() the instance publishes no document change and applies no
\* inbound message.
SafeDeactivation ==
  /\ [](\A s \in Stores : tabDisposes[s] > 0 => closed[s] /\ inbox[s] = <<>>)
  /\ [][\A s \in Stores :
          /\ (TabDisposes(s) /\ ~updateHandler[s]) =>
               /\ closed'[s]
               /\ UNCHANGED <<doc, docHandlers, updateHandler, onmessage,
                              published, tabApplied>>
               /\ \A t \in Stores \ {s} :
                     inbox'[t] = inbox[t] /\ closed'[t] = closed[t]
          /\ (TabDisposes(s) /\ ~updateHandler[s] /\ tabDisposes[s] > 0) =>
               UNCHANGED <<doc, docHandlers, updateHandler, onmessage, closed,
                           inbox, published, tabApplied>>
          /\ tabDisposes[s] > 0 =>
               /\ published'[s] = published[s]
               /\ tabApplied'[s] = tabApplied[s]
               /\ \A t \in Stores \ {s} :
                     Len(FromStore(inbox'[t], s)) <= Len(FromStore(inbox[t], s))
     ]_vars

\* an activated TabSync was disposed twice; afterwards its document and
\* the document of its active peer each got a write the other does not have
SafeDeactivationWitness ==
  \E s, t \in Stores :
    /\ s # t
    /\ tabDisposes[s] = 2 /\ onmessage[s] /\ published[s] = {}
    /\ Connected(t)
    /\ doc[s] \ published[s] # {} /\ published[t] \ doc[s] # {}

\* C36: at most one persistence timer is pending per store in every
\* reachable state; a store without storage adapter never has a timer
\* pending, its persist() performs no save and its dispose() resolves
\* without a storage call.
TimerDiscipline ==
  \A s \in Stores :
    /\ timers[s] <= 1
    /\ (Built(s) /\ ~HasStorage(s)) =>
         /\ timers[s] = 0 /\ persistTimer[s] = "null"
         /\ ops[s].n = "none" /\ lastSaved[s] = {}
         /\ loadCalls[s] = 0 /\ loading[s] = 0
         /\ disposePc[s] \in {"none", "done"}

\* a written store without storage was persisted and disposed while the
\* timer of its peer with storage, restarted by a second change, is pending
TimerDisciplineWitness ==
  \E s, t \in Stores :
    /\ Built(s) /\ ~HasStorage(s)
    /\ Own(s) # {} /\ persistCalls[s] > 0 /\ disposePc[s] = "done"
    /\ HasStorage(t) /\ timers[t] = 1 /\ ops[t].burst = "many"
    /\ ~blob[StorageKey(t)].present

\* no message is in flight on the tab bus
BusQuiet == \A t \in Stores : inbox[t] = <<>>

\* every constructed store has every write
AllApplied == \A s \in Stores : Built(s) => doc[s] = UNION {doc[t] : t \in Stores}

\* C37: after finitely many local writes on the stores of a storeId only
\* finitely many bus messages are published: the bus becomes quiet for
\* good, and once every delta is applied everywhere and nothing is in
\* flight no store publishes again.
BroadcastQuiescence ==
  /\ <>[]BusQuiet
  /\ [][(BusQuiet /\ AllApplied /\ doc' = doc) => BusQuiet']_vars

\* both stores have both writes, one of them received over the bus by a
\* store with two update handlers, and nothing is in flight
BroadcastQuiescenceWitness ==
  /\ BusQuiet /\ AllApplied
  /\ WritesMade = MaxWrites
  /\ \E s, t \in Stores :
       /\ s # t /\ Connected(s) /\ Connected(t) /\ docHandlers[s] = 2
       /\ Own(s) # {} /\ Own(t) # {}

\* C38 (as claimed): the failure counter never grows beyond maxFailures, so
\* that the breaker trips, force-disconnects and notifies "disconnected" at
\* most once between two successful connects
BreakerTripsOnce ==
  \A s \in Stores : websocketFailures[s] <= MaxWebsocketFailures(s)

\* C39 (as claimed): once all messages are delivered, the text of every
\* store holds the initial value at most once
SeededAtMostOnce ==
  (\A t \in Stores : inbox[t] = <<>>) => \A s \in Stores : TextLength(s) <= 1

====
